---- MODULE Spec2Model ----
(***************************************************************************)
(* A model of the construction environments of SCons/Environment.py:       *)
(* SubstitutionEnvironment / Base (the variable store `_dict`, its special *)
(* keys, the BUILDERS registry and its builder attributes, the memoized    *)
(* scanner map, Clone) and OverrideEnvironment (the override layer over a  *)
(* subject environment).                                                   *)
(*                                                                         *)
(* Environments: "E" is a Base environment, "C" the environment returned   *)
(* by E.Clone(), "O" the OverrideEnvironment returned by E.Override(...).  *)
(*                                                                         *)
(* Python values are records [t, id, a, l, m]:                             *)
(*   t = "none"  None                                                      *)
(*   t = "str"   a string, a is its text                                   *)
(*   t = "int"   a number, a is its decimal name                           *)
(*   t = "obj"   an opaque object (a builder, a scanner, ...), a its name  *)
(*   t = "list"  a list, l its items                                       *)
(*   t = "dict"  a dict, m its mapping                                     *)
(*   t = "bdict" a BuilderDict, m its data, a the environment it binds to  *)
(* id is the identity of a mutable object (0 for immutable values): two    *)
(* slots holding the same id hold the same object, and an in-place         *)
(* mutation of that object shows in both.                                  *)
(* A dict's mapping is the sequence of its <<key, value>> pairs in         *)
(* insertion order; keys and values are atoms named by strings, and the    *)
(* Python value None is the atom "None".                                   *)
(* A list item is a record [k, v, m]: an atom (k = "atom", v = <<name>>),  *)
(* a tuple of atoms (k = "tuple", v its members), a nested list of atoms   *)
(* (k = "list") or a nested dict (k = "dict", m its mapping).              *)
(***************************************************************************)
EXTENDS Integers, Sequences, FiniteSets, TLC

VARIABLES
    live,           \* the environments that exist
    dict,           \* dict[e]: the _dict of base environment e
    overrides,      \* the __dict__['overrides'] of O
    attrs,          \* attrs[e]: the MethodWrapper attributes of e's __dict__
    memo,           \* memo[e]: the _memo['_gsm'] entry of e
    added_methods,  \* added_methods[e]: e.added_methods
    decider,        \* decider[e]: e.cache_timestamp_newer, e.decide_target
                    \* and e.decide_source
    threads,        \* threads[t]: where thread t stands in its call on E,
                    \* and the locals of that call
    held            \* history: the values SCANNERS of E has held while
                    \* threads were running

vars == <<live, dict, overrides, attrs, memo, added_methods, decider, threads, held>>

\* ---------------------------------------------------------------- bounds

\* Longest list a variable may grow to (guards of the merging actions).
MaxLen == 3
\* The most methods the model adds to one environment.
MaxMethods == 2

\* The assignments the writing thread makes.
MaxWrites == 2

\* ---------------------------------------------------------------- values

BaseEnvs == {"E", "C"}
AllEnvs == {"E", "C", "O"}

reserved_construction_var_names ==
    {"CHANGED_SOURCES", "CHANGED_TARGETS", "SOURCE", "SOURCES",
     "TARGET", "TARGETS", "UNCHANGED_SOURCES", "UNCHANGED_TARGETS"}

future_reserved_construction_var_names == {}

EmptyMap == [x \in {} |-> ""]

NoneV == [t |-> "none", id |-> 0, a |-> "", l |-> <<>>, m |-> <<>>]
StrV(s) == [t |-> "str", id |-> 0, a |-> s, l |-> <<>>, m |-> <<>>]
IntV(n) == [t |-> "int", id |-> 0, a |-> n, l |-> <<>>, m |-> <<>>]
ObjV(o) == [t |-> "obj", id |-> 0, a |-> o, l |-> <<>>, m |-> <<>>]
ListV(items) == [t |-> "list", id |-> 0, a |-> "", l |-> items, m |-> <<>>]
DictV(f) == [t |-> "dict", id |-> 0, a |-> "", l |-> <<>>, m |-> f]
BDictV(f, env) == [t |-> "bdict", id |-> 0, a |-> env, l |-> <<>>, m |-> f]

At(s) == [k |-> "atom", v |-> <<s>>, m |-> <<>>]
Tup(s) == [k |-> "tuple", v |-> s, m |-> <<>>]

\* The name of a scalar value as a dict key or dict value.
AtomOf(val) == IF val.t = "none" THEN "None" ELSE val.a

\* The item a value becomes when it is put into a list as one element.
ItemOf(val) ==
    CASE val.t \in {"dict", "bdict"} -> [k |-> "dict", v |-> <<>>, m |-> val.m]
      [] val.t = "list" -> [k |-> "list", v |-> [i \in 1..Len(val.l) |-> val.l[i].v[1]], m |-> <<>>]
      [] OTHER -> At(AtomOf(val))

\* A dict's mapping: its keys, d[k], d[k] = v, del d[k], d.update(other).
MKeys(m) == {m[i][1] : i \in 1..Len(m)}
MGet(m, k) == m[CHOOSE i \in 1..Len(m) : m[i][1] = k][2]
MPut(m, k, v) ==
    IF k \in MKeys(m)
    THEN [i \in 1..Len(m) |-> IF m[i][1] = k THEN <<k, v>> ELSE m[i]]
    ELSE Append(m, <<k, v>>)
MDel(m, k) == LET keep(p) == p[1] # k IN SelectSeq(m, keep)
RECURSIVE MUpdate(_, _)
MUpdate(m, other) ==
    IF other = <<>> THEN m
    ELSE MUpdate(MPut(m, Head(other)[1], Head(other)[2]), Tail(other))

\* Python truth value.
Truthy(val) ==
    CASE val.t = "none" -> FALSE
      [] val.t = "str" -> val.a # ""
      [] val.t = "int" -> val.a # "0"
      [] val.t = "list" -> val.l # <<>>
      [] val.t \in {"dict", "bdict"} -> val.m # <<>>
      [] OTHER -> TRUE

is_List(val) == val.t = "list"
is_Dict(val) == val.t \in {"dict", "bdict"}
is_String(val) == val.t = "str"

\* Python ==, which does not look at identity.
PyEq(x, y) ==
    /\ x.t = y.t /\ x.l = y.l
    /\ x.t # "bdict" => x.a = y.a
    /\ {x.m[i] : i \in 1..Len(x.m)} = {y.m[i] : i \in 1..Len(y.m)}

\* list.reverse(), as a new sequence.
Reverse(l) == [i \in 1..Len(l) |-> l[Len(l) + 1 - i]]

\* d[k] = v and del d[k] on a Python dict held as a function.
Put(d, k, v) == [x \in DOMAIN d \cup {k} |-> IF x = k THEN v ELSE d[x]]
Del(d, k) == [x \in DOMAIN d \ {k} |-> d[x]]

\* ---------------------------------------------------------------- state

\* The state the methods below read and return, as one record; exc is the
\* exception the call raised ("none": it returned).
Cur ==
    [dict |-> dict, overrides |-> overrides, attrs |-> attrs, memo |-> memo,
     added_methods |-> added_methods, decider |-> decider, exc |-> "none"]

Raise(S, e) == [S EXCEPT !.exc = e]

\* OverrideEnvironment.__getattr__ / __setattr__: an attribute of O that O's
\* own __dict__ does not hold (_dict, _memo, added_methods, the builder
\* attributes) is the subject's.
Subject(self) == IF self = "O" THEN "E" ELSE self

\* The identities in use, and the identity a new mutable object gets.
UsedIds(S) ==
    UNION {{S.dict[e][k].id : k \in DOMAIN S.dict[e]} : e \in BaseEnvs}
    \cup {S.overrides[k].id : k \in DOMAIN S.overrides}

FreshId(S) ==
    CHOOSE i \in 1..(Cardinality(UsedIds(S)) + 1) :
        /\ i \notin UsedIds(S)
        /\ \A j \in 1..(i - 1) : j \in UsedIds(S)

IsMutable(val) == val.t \in {"list", "dict", "bdict"}

\* A value as a new object.
New(S, val) == IF IsMutable(val) THEN [val EXCEPT !.id = FreshId(S)] ELSE val

\* self._dict[key] = val, val a new object.
StoreNew(S, e, key, val) == [S EXCEPT !.dict[e] = Put(@, key, New(S, val))]

\* An in-place mutation of the object old: every slot that holds the object
\* shows the new content.
Mutated(slot, old, content) ==
    IF slot.id = old.id /\ old.id # 0
    THEN [content EXCEPT !.id = old.id]
    ELSE slot

MutateObj(S, old, content) ==
    [S EXCEPT
        !.dict = [e \in BaseEnvs |->
                    [k \in DOMAIN S.dict[e] |-> Mutated(S.dict[e][k], old, content)]],
        !.overrides = [k \in DOMAIN S.overrides |->
                    Mutated(S.overrides[k], old, content)]]

\* ------------------------------------------------- external collaborators

\* SCons.Builder.is_a_Builder: the objects that satisfy the builder contract.
BuilderObjs == {"b1", "b2"}
is_a_Builder(v) == v \in BuilderObjs

\* Scanner objects and scanner.get_skeys(env).
ScannerObjs == {"s1", "s2"}
get_skeys(scanner) == IF scanner = "s1" THEN <<".c">> ELSE <<".c", ".H">>

\* str.lower() on the scanner keys of the model.
Lower(k) == IF k = ".H" THEN ".h" ELSE k

\* _is_valid_var.match(key): the verdict of the pattern [_a-zA-Z]\w*$ on the
\* names the model draws.
IllegalNames == {"1X", "A-B", ""}
is_valid_construction_var(varstr) == varstr \notin IllegalNames

\* MethodWrapper.__init__(obj, method, name), for a BuilderWrapper: the
\* wrapper records obj, method and name and does setattr(obj, name, wrapper);
\* setattr on O sets the attribute of its subject.
BuilderWrapper(S, obj, method, name) ==
    [S EXCEPT !.attrs[Subject(obj)] =
        Put(@, name, [cls |-> "BuilderWrapper", object |-> obj,
                      method |-> method, name |-> name])]

\* MethodWrapper.__call__(*args): the method is called with the object
\* the wrapper is bound to and then the arguments.
MethodWrapper___call__(w, target, source, rest) ==
    [builder |-> w.method, env |-> w.object, target |-> target, source |-> source,
     rest |-> rest]

\* BuilderWrapper.__call__(target=None, source=_null, *args) with the
\* positional arguments args: no second argument leaves source _null.
BuilderWrapper___call__(w, args) ==
    LET target0 == IF Len(args) >= 1 THEN args[1] ELSE NoneV
        null == Len(args) < 2
        target1 == IF null THEN NoneV ELSE target0
        source1 == IF null THEN target0 ELSE args[2]
        target == IF target1.t # "none" /\ ~is_List(target1)
                  THEN ListV(<<ItemOf(target1)>>) ELSE target1
        source == IF source1.t # "none" /\ ~is_List(source1)
                  THEN ListV(<<ItemOf(source1)>>) ELSE source1
    IN  MethodWrapper___call__(w, target, source,
                               IF Len(args) > 2 THEN SubSeq(args, 3, Len(args)) ELSE <<>>)

\* ---------------------------------------------------------- added methods
\* A MethodWrapper is an object of its own: two wrappers of the same
\* function under the same name are different objects, told apart by id.
WrapperIds(S) ==
    UNION {{S.attrs[e][n].id :
               n \in {x \in DOMAIN S.attrs[e] : S.attrs[e][x].cls = "MethodWrapper"}}
           \cup {S.added_methods[e][i].id : i \in 1..Len(S.added_methods[e])} :
           e \in BaseEnvs}
FreshWrapperId(S) ==
    CHOOSE i \in 1..(Cardinality(WrapperIds(S)) + 1) :
        /\ i \notin WrapperIds(S)
        /\ \A j \in 1..(i - 1) : j \in WrapperIds(S)

\* MethodWrapper(obj, method, name): [S, mw].  The wrapper sets itself as
\* the attribute name of obj.
MethodWrapper(S, obj, method, name) ==
    LET mw == [cls |-> "MethodWrapper", object |-> obj, method |-> method,
               name |-> name, id |-> FreshWrapperId(S)]
    IN  [S |-> [S EXCEPT !.attrs[Subject(obj)] = Put(@, name, mw)], mw |-> mw]

\* AddMethod(function, name=None): name "" stands for None, and the
\* wrapper then takes the function's own name.
AddMethod(S, self, function, name) ==
    LET R == MethodWrapper(S, self, function, IF name = "" THEN function ELSE name)
    IN  [R.S EXCEPT !.added_methods[Subject(self)] = Append(@, R.mw)]

\* env.name = value, by the program that owns the environment.
setattr(S, self, name, value) ==
    [S EXCEPT !.attrs[Subject(self)] = Put(@, name, value)]

RemoveMethod(S, self, function) ==
    LET keep(dm) == dm.method # function
    IN  [S EXCEPT !.added_methods[Subject(self)] = SelectSeq(@, keep)]

\* ------------------------------------------------------------ BuilderDict
\* The methods take the BuilderDict bd and return [S, bd]: the state after
\* the call and the BuilderDict's new content.

BuilderDict___setitem__(S, bd, item, val) ==
    LET env == bd.a
        S1 == IF item \in DOMAIN S.attrs[Subject(env)]
              THEN RemoveMethod(S, env, S.attrs[Subject(env)][item].method)
              ELSE S
    IN  [S |-> BuilderWrapper(S1, env, val, item),
         bd |-> [bd EXCEPT !.m = MPut(@, item, val)]]

\* A delete that removes the name from the mapping and leaves the
\* attribute.
BuilderDict___delitem__KeepsAttr(S, bd, item) ==
    IF item \notin MKeys(bd.m)
    THEN [S |-> Raise(S, "KeyError"), bd |-> bd]
    ELSE [S |-> S, bd |-> [bd EXCEPT !.m = MDel(@, item)]]

BuilderDict___delitem__(S, bd, item) ==
    IF item \notin MKeys(bd.m)
    THEN [S |-> Raise(S, "KeyError"), bd |-> bd]
    ELSE LET bd1 == [bd EXCEPT !.m = MDel(@, item)]
         IN  IF item \notin DOMAIN S.attrs[Subject(bd.a)]
             THEN [S |-> Raise(S, "AttributeError"), bd |-> bd1]
             ELSE [S |-> [S EXCEPT !.attrs[Subject(bd.a)] = Del(@, item)], bd |-> bd1]

RECURSIVE BuilderDict_update(_, _, _)
BuilderDict_update(S, bd, mapping) ==
    IF mapping = <<>>
    THEN [S |-> S, bd |-> bd]
    ELSE LET R == BuilderDict___setitem__(S, bd, Head(mapping)[1], Head(mapping)[2])
         IN  BuilderDict_update(R.S, R.bd, Tail(mapping))

BuilderDict___init__(S, mapping, env) ==
    BuilderDict_update(S, BDictV(<<>>, env), mapping)

\* ------------------------------------------------------------ scanner map

scanner_map_delete(S, self) ==
    [S EXCEPT !.memo[Subject(self)] = [valid |-> FALSE, map |-> EmptyMap]]

\* The scanners list of _gsm: SCANNERS itself when it is a list, else
\* [SCANNERS].
ScannersList(val) == IF is_List(val) THEN val.l ELSE <<ItemOf(val)>>

\* Every element of the list has a get_skeys method.
AllScanners(items) ==
    \A i \in 1..Len(items) : items[i].k = "atom" /\ items[i].v[1] \in ScannerObjs

\* result[k] = scanner for each key of one scanner, in order.
RECURSIVE AddSkeys(_, _, _, _)
AddSkeys(result, scanner, skeys, win32) ==
    IF skeys = <<>>
    THEN result
    ELSE LET k == IF Head(skeys) # "" /\ win32 THEN Lower(Head(skeys)) ELSE Head(skeys)
         IN  AddSkeys(Put(result, k, scanner), scanner, Tail(skeys), win32)

\* The loop of _gsm over the reversed list: the last element first, so that
\* an earlier scanner overwrites a later one.
RECURSIVE ScannerMap(_, _)
ScannerMap(items, win32) ==
    IF items = <<>>
    THEN EmptyMap
    ELSE LET s == Head(items).v[1]
         IN  AddSkeys(ScannerMap(Tail(items), win32), s, get_skeys(s), win32)

\* Base._gsm: returns [S, map]; S.exc says whether it raised.  The loop
\* takes the last element first: an element without get_skeys raises
\* AttributeError, a scanner key raises KeyError when self['PLATFORM'] is
\* not set (self['PLATFORM'] of O looks at the override layer first).
Base__gsm(S, self) ==
    LET e == Subject(self)
        d == S.dict[e]
        noplatform == ~(\/ self = "O" /\ "PLATFORM" \in DOMAIN S.overrides
                        \/ "PLATFORM" \in DOMAIN d)
        platform == IF self = "O" /\ "PLATFORM" \in DOMAIN S.overrides
                    THEN S.overrides["PLATFORM"] ELSE d["PLATFORM"]
    IN  IF S.memo[e].valid
        THEN [S |-> S, map |-> S.memo[e].map]
        ELSE IF "SCANNERS" \notin DOMAIN d \/ ScannersList(d["SCANNERS"]) = <<>>
        THEN [S |-> [S EXCEPT !.memo[e] = [valid |-> TRUE, map |-> EmptyMap]],
              map |-> EmptyMap]
        ELSE LET scanners == ScannersList(d["SCANNERS"])
             IN  IF noplatform
                 THEN [S |-> Raise(S, IF AllScanners(<<scanners[Len(scanners)]>>)
                                      THEN "KeyError" ELSE "AttributeError"),
                       map |-> EmptyMap]
                 ELSE IF ~AllScanners(scanners)
                 THEN [S |-> Raise(S, "AttributeError"), map |-> EmptyMap]
                 ELSE LET result == ScannerMap(scanners, PyEq(platform, StrV("win32")))
                      IN  [S |-> [S EXCEPT !.memo[e] = [valid |-> TRUE, map |-> result]],
                           map |-> result]

\* Base.get_scanner: returns [S, ret], ret the scanner found or "None".
get_scanner(S, self, skey) ==
    LET p == IF self = "O" /\ "PLATFORM" \in DOMAIN S.overrides
             THEN [exc |-> "none", val |-> S.overrides["PLATFORM"]]
             ELSE IF "PLATFORM" \in DOMAIN S.dict[Subject(self)]
             THEN [exc |-> "none", val |-> S.dict[Subject(self)]["PLATFORM"]]
             ELSE [exc |-> "KeyError", val |-> NoneV]
        k == IF skey # "" /\ p.exc = "none" /\ PyEq(p.val, StrV("win32"))
             THEN Lower(skey) ELSE skey
        R == Base__gsm(S, self)
    IN  IF skey # "" /\ p.exc # "none"
        THEN [S |-> Raise(S, "KeyError"), ret |-> "None"]
        ELSE [S |-> R.S,
              ret |-> IF R.S.exc = "none" /\ k \in DOMAIN R.map THEN R.map[k] ELSE "None"]

\* ------------------------------------------------------ special setters
\* Keyword arguments (kw) are sequences of <<key, value>> pairs.

KwKeys(kw) == {kw[i][1] : i \in 1..Len(kw)}

\* copy_non_reserved_keywords: a copy of kw without the reserved names.
copy_non_reserved_keywords(kw) ==
    LET keep(p) == p[1] \notin reserved_construction_var_names
    IN  SelectSeq(kw, keep)

\* _set_reserved: the warning, and no write.
SetReserved(S, env, key, value) == S

\* del bd[k] for every key of a BuilderDict.
RECURSIVE BuilderDict_clear(_, _)
BuilderDict_clear(S, bd) ==
    IF bd.m = <<>> \/ S.exc # "none"
    THEN [S |-> S, bd |-> bd]
    ELSE LET R == BuilderDict___delitem__(S, bd, Head(bd.m)[1])
         IN  BuilderDict_clear(R.S, R.bd)

\* The first loop of _set_BUILDERS: empty the mapping env._dict[key] holds.
\* bd.copy() of a BuilderDict builds the copy with BuilderDict.update, which
\* binds every name of bd to the environment again before the loop deletes.
SetBuildersClear(S, env, key) ==
    LET bd == S.dict[env][key]
    IN  CASE bd.t = "bdict" ->
                LET C0 == BuilderDict_update(S, [bd EXCEPT !.m = <<>>], bd.m)
                    R == BuilderDict_clear(C0.S, bd)
                IN  MutateObj(R.S, bd, R.bd)
          [] bd.t = "dict" -> MutateObj(S, bd, DictV(<<>>))
          [] OTHER -> Raise(S, "AttributeError")

\* bd.update(value), the last line of _set_BUILDERS.
SetBuildersUpdate(S, env, key, value) ==
    LET bd == S.dict[env][key]
    IN  IF bd.t = "bdict"
        THEN LET R == BuilderDict_update(S, bd, value.m) IN MutateObj(R.S, bd, R.bd)
        ELSE MutateObj(S, bd, DictV(MUpdate(bd.m, value.m)))

SetBuilders(S, env, key, value) ==
    IF key \notin DOMAIN S.dict[env]
    THEN \* the except clause reads bd, which was never assigned
         Raise(S, "UnboundLocalError")
    ELSE LET S1 == SetBuildersClear(S, env, key)
         IN  IF S1.exc # "none" THEN S1
             ELSE IF ~is_Dict(value) THEN Raise(S1, "AttributeError")
             ELSE IF \E i \in 1..Len(value.m) : ~is_a_Builder(value.m[i][2])
             THEN Raise(S1, "NotABuilder")
             ELSE SetBuildersUpdate(S1, env, key, value)

SetScanners(S, env, key, value) ==
    scanner_map_delete(StoreNew(S, env, key, value), env)

DelScanners(S, env, key) ==
    IF key \notin DOMAIN S.dict[env]
    THEN Raise(S, "KeyError")
    ELSE scanner_map_delete([S EXCEPT !.dict[env] = Del(@, key)], env)

\* ------------------------------------- threads calling on the scanner map
\* A thread calling get_scanner on E takes the steps of get_scanner and
\* _gsm one access of the shared _dict or _memo at a time; th is the
\* thread's record: where it stands (pc) and the locals of its call.

IdleThread ==
    [pc |-> "idle", skey |-> "", todo |-> <<>>, result |-> EmptyMap,
     from |-> EmptyMap, ret |-> "None"]

Win32(S, self) == PyEq(S.dict[Subject(self)]["PLATFORM"], StrV("win32"))

\* dict.get(k): the value, or None.
Lookup(map, k) == IF k \in DOMAIN map THEN map[k] ELSE "None"

\* get_scanner up to its call of _gsm: the key is lowered on win32.
Thread_get_scanner(S, self, skey) ==
    [IdleThread EXCEPT
        !.pc = "memo",
        !.skey = IF skey # "" /\ Win32(S, self) THEN Lower(skey) ELSE skey]

\* _gsm, the look into the memo: on a hit the memoized map is what
\* get_scanner looks the key up in.
Thread_memo(S, self, th) ==
    IF S.memo[Subject(self)].valid
    THEN [th EXCEPT !.pc = "done",
                    !.from = S.memo[Subject(self)].map,
                    !.ret = Lookup(S.memo[Subject(self)].map, th.skey)]
    ELSE [th EXCEPT !.pc = "scanners"]

\* _gsm, the read of SCANNERS: one read of the store, then a reversed
\* copy of the list (or the one scanner), local to the call.
Thread_scanners(S, self, th) ==
    LET d == S.dict[Subject(self)]
    IN  [th EXCEPT !.pc = "loop",
                   !.result = EmptyMap,
                   !.todo = IF "SCANNERS" \in DOMAIN d
                            THEN Reverse(ScannersList(d["SCANNERS"]))
                            ELSE <<>>]

\* _gsm, one turn of the loop over the local list, filling the local
\* result.
Thread_loop(S, self, th) ==
    IF th.todo = <<>>
    THEN [th EXCEPT !.pc = "store"]
    ELSE LET s == Head(th.todo).v[1]
         IN  [th EXCEPT !.todo = Tail(th.todo),
                        !.result = AddSkeys(th.result, s, get_skeys(s), Win32(S, self))]

\* The memo entry during a turn of the loop: result is a local, nothing
\* is stored before the loop has ended.
MemoPublishedEarly(entry, result) == [valid |-> TRUE, map |-> result]

MemoWhileBuilding(entry, result) == entry

\* _gsm, self._memo['_gsm'] = result.
Thread_store(S, self, th) ==
    [S |-> [S EXCEPT !.memo[Subject(self)] = [valid |-> TRUE, map |-> th.result]],
     th |-> [th EXCEPT !.pc = "return"]]

\* return result, and the .get(skey) of get_scanner.
Thread_return(th) ==
    [th EXCEPT !.pc = "done", !.from = th.result, !.ret = Lookup(th.result, th.skey)]

\* The writer's call env['SCANNERS'] = value runs _set_SCANNERS in two
\* steps: the store, then scanner_map_delete.
Writer_store(S, env, key, value) == StoreNew(S, env, key, value)

Writer_delete(S, env) == scanner_map_delete(S, env)

special_set_keys ==
    reserved_construction_var_names \cup future_reserved_construction_var_names
    \cup {"BUILDERS", "SCANNERS"}

\* --------------------------------------------- SubstitutionEnvironment

SubstitutionEnvironment___delitem__(S, self, key) ==
    IF key = "SCANNERS"
    THEN DelScanners(S, self, key)
    ELSE IF key \notin DOMAIN S.dict[self]
    THEN Raise(S, "KeyError")
    ELSE [S EXCEPT !.dict[self] = Del(@, key)]

SubstitutionEnvironment___setitem__(S, self, key, value) ==
    IF key \in special_set_keys
    THEN CASE key \in reserved_construction_var_names -> SetReserved(S, self, key, value)
           [] key = "BUILDERS" -> SetBuilders(S, self, key, value)
           [] key = "SCANNERS" -> SetScanners(S, self, key, value)
           [] OTHER -> StoreNew(S, self, key, value)
    ELSE IF key \notin DOMAIN S.dict[self] /\ ~is_valid_construction_var(key)
    THEN Raise(S, "IllegalVariable")
    ELSE StoreNew(S, self, key, value)

\* self._dict.setdefault(key, default)
SubstitutionEnvironment_setdefault(S, self, key, default) ==
    IF key \in DOMAIN S.dict[self] THEN S ELSE StoreNew(S, self, key, default)

\* self._dict.update(other): every value of other is a new object.
RECURSIVE Base__update(_, _, _)
Base__update(S, self, other) ==
    IF other = <<>>
    THEN S
    ELSE Base__update(StoreNew(S, self, Head(other)[1], Head(other)[2]), self, Tail(other))

\* ------------------------------------------------- OverrideEnvironment

\* A write that lands in the subject's store instead of the override layer.
StoreInSubject(S, key, val) == StoreNew(S, "E", key, val)

\* self.__dict__['overrides'][key] = value
StoreNewOverride(S, key, val) == [S EXCEPT !.overrides = Put(@, key, New(S, val))]

\* __getitem__ on any environment: [exc, val].
GetItem(S, self, key) ==
    IF self = "O" /\ key \in DOMAIN S.overrides
    THEN [exc |-> "none", val |-> S.overrides[key]]
    ELSE IF key \in DOMAIN S.dict[Subject(self)]
    THEN [exc |-> "none", val |-> S.dict[Subject(self)][key]]
    ELSE [exc |-> "KeyError", val |-> NoneV]

\* __contains__ on any environment.
Contains(S, self, key) ==
    \/ self = "O" /\ key \in DOMAIN S.overrides
    \/ key \in DOMAIN S.dict[Subject(self)]

OverrideEnvironment___setitem__(S, key, value) ==
    IF ~is_valid_construction_var(key)
    THEN Raise(S, "IllegalVariable")
    ELSE StoreNewOverride(S, key, value)

OverrideEnvironment___delitem__(S, key) ==
    LET deleted == key \in DOMAIN S.overrides
        S1 == IF deleted THEN [S EXCEPT !.overrides = Del(@, key)] ELSE S
        S2 == SubstitutionEnvironment___delitem__(S1, Subject("O"), key)
    IN  IF S2.exc = "KeyError" /\ deleted THEN S1 ELSE S2

OverrideEnvironment_setdefault(S, key, default) ==
    IF GetItem(S, "O", key).exc = "none" THEN S ELSE StoreNewOverride(S, key, default)

RECURSIVE OverrideEnvironment__update(_, _)
OverrideEnvironment__update(S, other) ==
    IF other = <<>>
    THEN S
    ELSE OverrideEnvironment__update(
            StoreNewOverride(S, Head(other)[1], Head(other)[2]), Tail(other))

OverrideEnvironment_Replace(S, kw) ==
    OverrideEnvironment__update(S, copy_non_reserved_keywords(kw))

\* ----------------------------------------------------------- read paths
\* An environment as its layers: the _dict of the Base environment first,
\* then the overrides of each OverrideEnvironment wrapped around it, the
\* outermost last.  The subject of a layered environment is its layers
\* without the last.
SubjectOf(L) == SubSeq(L, 1, Len(L) - 1)
Outer(L) == L[Len(L)]

\* __getitem__: [exc, val].
RECURSIVE Env___getitem__(_, _)
Env___getitem__(L, key) ==
    IF key \in DOMAIN Outer(L)
    THEN [exc |-> "none", val |-> Outer(L)[key]]
    ELSE IF Len(L) = 1
    THEN [exc |-> "KeyError", val |-> NoneV]
    ELSE Env___getitem__(SubjectOf(L), key)

RECURSIVE Env_get(_, _, _)
Env_get(L, key, default) ==
    IF key \in DOMAIN Outer(L)
    THEN Outer(L)[key]
    ELSE IF Len(L) = 1 THEN default ELSE Env_get(SubjectOf(L), key, default)

RECURSIVE Env___contains__(_, _)
Env___contains__(L, key) ==
    IF key \in DOMAIN Outer(L)
    THEN TRUE
    ELSE IF Len(L) = 1 THEN FALSE ELSE Env___contains__(SubjectOf(L), key)

RECURSIVE Env_Dictionary(_)
\* A Dictionary whose update does not replace the subject's entries.
DictionarySubjectWins(L) ==
    IF Len(L) = 1
    THEN L[1]
    ELSE LET d == Env_Dictionary(SubjectOf(L))
             ov == Outer(L)
         IN  [k \in DOMAIN d \cup DOMAIN ov |-> IF k \in DOMAIN d THEN d[k] ELSE ov[k]]

\* Dictionary(): the subject's Dictionary, copied and updated.
Env_Dictionary(L) ==
    IF Len(L) = 1
    THEN L[1]
    ELSE LET d == Env_Dictionary(SubjectOf(L))
             ov == Outer(L)
         IN  [k \in DOMAIN d \cup DOMAIN ov |-> IF k \in DOMAIN ov THEN ov[k] ELSE d[k]]

\* Dictionary(key): [exc, val].
Env_DictionaryArg(L, key) ==
    LET d == Env_Dictionary(L)
    IN  IF key \in DOMAIN d
        THEN [exc |-> "none", val |-> d[key]]
        ELSE [exc |-> "KeyError", val |-> NoneV]

Env_keys(L) == DOMAIN Env_Dictionary(L)
Env_items(L) == LET d == Env_Dictionary(L) IN {<<k, d[k]>> : k \in DOMAIN d}
Env_values(L) == LET d == Env_Dictionary(L) IN {d[k] : k \in DOMAIN d}

\* ------------------------------------------------------------ dispatch

SetItem(S, self, key, value) ==
    IF self = "O"
    THEN OverrideEnvironment___setitem__(S, key, value)
    ELSE SubstitutionEnvironment___setitem__(S, self, key, value)

DelItem(S, self, key) ==
    IF self = "O"
    THEN OverrideEnvironment___delitem__(S, key)
    ELSE SubstitutionEnvironment___delitem__(S, self, key)

setdefault(S, self, key, default) ==
    IF self = "O"
    THEN OverrideEnvironment_setdefault(S, key, default)
    ELSE SubstitutionEnvironment_setdefault(S, self, key, default)

\* -------------------------------------------------------- Base.Replace

\* kw without its BUILDERS entry, and that entry's value.
KwWithout(kw, key) == LET keep(p) == p[1] # key IN SelectSeq(kw, keep)
KwValue(kw, key) == kw[CHOOSE i \in 1..Len(kw) : kw[i][1] = key][2]

Base_Replace(S, self, kw) ==
    LET S1 == IF "BUILDERS" \notin KwKeys(kw) THEN S
              ELSE IF ~is_Dict(KwValue(kw, "BUILDERS")) THEN Raise(S, "AttributeError")
              ELSE LET R == BuilderDict___init__(S, KwValue(kw, "BUILDERS").m, self)
                   IN  SubstitutionEnvironment___setitem__(R.S, self, "BUILDERS", R.bd)
        kw1 == copy_non_reserved_keywords(KwWithout(kw, "BUILDERS"))
    IN  IF S1.exc # "none" THEN S1
        ELSE scanner_map_delete(Base__update(S1, self, kw1), self)

Replace(S, self, kw) ==
    IF self = "O" THEN OverrideEnvironment_Replace(S, kw) ELSE Base_Replace(S, self, kw)

\* for k in list(kw.keys()): if k in self._dict: del kw[k]
Base_SetDefault(S, self, kw) ==
    LET new(p) == p[1] \notin DOMAIN S.dict[Subject(self)]
    IN  Replace(S, self, SelectSeq(kw, new))

\* ------------------------------------------------- Python operators

\* The numbers of the model by name, and the name of the sum of two.
IntNames == <<"0", "1", "2", "3", "4">>
IntOf(n) == CHOOSE i \in 0..(Len(IntNames) - 1) : IntNames[i + 1] = n
IntSum(x, y) ==
    IF IntOf(x) + IntOf(y) < Len(IntNames) THEN IntNames[IntOf(x) + IntOf(y) + 1]
    ELSE "many"

\* orig + val: defined between two strings, between two numbers and
\* between two lists; anything else raises TypeError.
CanAdd(x, y) == x.t = y.t /\ x.t \in {"str", "int", "list"}
Add(x, y) ==
    CASE x.t = "str" -> StrV(x.a \o y.a)
      [] x.t = "int" -> IntV(IntSum(x.a, y.a))
      [] OTHER -> ListV(x.l \o y.l)

\* A key of a dict that a list item can be: only an atom is held as a key
\* here; a tuple key is outside the model, a list or dict is unhashable.
KeyOfItem(item) == item.v[1]

\* orig[k] = v on a dict or a BuilderDict: [S, bd].
DictSet(S, orig, k, v) ==
    IF orig.t = "bdict"
    THEN BuilderDict___setitem__(S, orig, k, v)
    ELSE [S |-> S, bd |-> [orig EXCEPT !.m = MPut(@, k, v)]]

\* for v in val: orig[v] = None
RECURSIVE DictSetItems(_, _, _)
DictSetItems(S, orig, items) ==
    IF items = <<>>
    THEN [S |-> S, bd |-> orig]
    ELSE IF Head(items).k \in {"list", "dict"}
    THEN [S |-> Raise(S, "TypeError"), bd |-> orig]
    ELSE IF Head(items).k = "tuple"
    THEN [S |-> Raise(S, "Unmodelled"), bd |-> orig]
    ELSE LET R == DictSet(S, orig, KeyOfItem(Head(items)), "None")
         IN  DictSetItems(R.S, R.bd, Tail(items))

\* for k, v in val.items(): orig[k] = v
RECURSIVE DictSetPairs(_, _, _)
DictSetPairs(S, orig, pairs) ==
    IF pairs = <<>>
    THEN [S |-> S, bd |-> orig]
    ELSE LET R == DictSet(S, orig, Head(pairs)[1], Head(pairs)[2])
         IN  DictSetPairs(R.S, R.bd, Tail(pairs))

\* The branch of Append and Prepend for an original that has .update: the
\* original is changed in place.
UpdateDictLike(S, orig, val) ==
    LET R == IF is_List(val) THEN DictSetItems(S, orig, val.l)
             ELSE IF is_Dict(val) THEN DictSetPairs(S, orig, val.m)
             ELSE IF orig.t = "dict" /\ val.t = "str" /\ val.a = ""
             THEN \* dict.update('') iterates over nothing
                  [S |-> S, bd |-> orig]
             ELSE DictSet(S, orig, AtomOf(val), "None")
    IN  MutateObj(R.S, orig, R.bd)

\* The (name,) and (name, value) tuples of a CPPDEFINES dict.
DefineTuples(m) ==
    [i \in 1..Len(m) |-> IF m[i][2] # "None" THEN Tup(<<m[i][1], m[i][2]>>)
                         ELSE Tup(<<m[i][1]>>)]

\* --------------------------------------------------------- Base.Append

\* An insertion of the original after the elements of the new value.
InsertOrigLast(orig, val) == ListV(Append(val.l, ItemOf(orig)))

\* val.insert(0, orig)
InsertOrig(orig, val) == ListV(<<ItemOf(orig)>> \o val.l)

AppendKey(S, e, key, val) ==
    IF key \notin DOMAIN S.dict[e]
    THEN IF key = "CPPDEFINES" /\ is_String(val)
         THEN StoreNew(S, e, key, ListV(<<ItemOf(val)>>))
         ELSE StoreNew(S, e, key, val)
    ELSE LET S0 == IF key = "CPPDEFINES" /\ is_String(S.dict[e][key])
                   THEN StoreNew(S, e, key, ListV(<<ItemOf(S.dict[e][key])>>))
                   ELSE S
             orig == S0.dict[e][key]
         IN  IF is_Dict(orig)
             THEN IF is_List(val) /\ key = "CPPDEFINES"
                  THEN StoreNew(S0, e, key, ListV(DefineTuples(orig.m) \o val.l))
                  ELSE UpdateDictLike(S0, orig, val)
             ELSE IF CanAdd(orig, val)
             THEN StoreNew(S0, e, key, Add(orig, val))
             ELSE IF is_List(orig)
             THEN IF Truthy(val)
                  THEN MutateObj(S0, orig, ListV(Append(orig.l, ItemOf(val))))
                  ELSE S0
             ELSE IF Truthy(orig) /\ ~is_List(val)
             THEN \* val.insert: val has no such method
                  Raise(S0, "AttributeError")
             ELSE IF Truthy(orig)
             THEN StoreNew(S0, e, key, InsertOrig(orig, val))
             ELSE StoreNew(S0, e, key, val)

RECURSIVE AppendLoop(_, _, _)
AppendLoop(S, e, kw) ==
    IF kw = <<>> \/ S.exc # "none"
    THEN S
    ELSE AppendLoop(AppendKey(S, e, Head(kw)[1], Head(kw)[2]), e, Tail(kw))

Base_Append(S, self, kw) ==
    LET S1 == AppendLoop(S, Subject(self), copy_non_reserved_keywords(kw))
    IN  IF S1.exc # "none" THEN S1 ELSE scanner_map_delete(S1, self)

\* -------------------------------------------------------- Base.Prepend

PrependKey(S, e, key, val) ==
    IF key \notin DOMAIN S.dict[e]
    THEN StoreNew(S, e, key, val)
    ELSE LET orig == S.dict[e][key]
         IN  IF is_Dict(orig)
             THEN UpdateDictLike(S, orig, val)
             ELSE IF CanAdd(val, orig)
             THEN StoreNew(S, e, key, Add(val, orig))
             ELSE IF is_List(val)
             THEN IF Truthy(orig)
                  THEN StoreNew(S, e, key, ListV(Append(val.l, ItemOf(orig))))
                  ELSE StoreNew(S, e, key, val)
             ELSE IF ~Truthy(val)
             THEN S
             ELSE IF is_List(orig)
             THEN MutateObj(S, orig, ListV(<<ItemOf(val)>> \o orig.l))
             ELSE \* orig.insert: orig has no such method
                  Raise(S, "AttributeError")

RECURSIVE PrependLoop(_, _, _)
PrependLoop(S, e, kw) ==
    IF kw = <<>> \/ S.exc # "none"
    THEN S
    ELSE PrependLoop(PrependKey(S, e, Head(kw)[1], Head(kw)[2]), e, Tail(kw))

Base_Prepend(S, self, kw) ==
    LET S1 == PrependLoop(S, Subject(self), copy_non_reserved_keywords(kw))
    IN  IF S1.exc # "none" THEN S1 ELSE scanner_map_delete(S1, self)

\* ------------------------------------------- membership and iteration

\* The atoms that are not Python strings: objects, numbers and None.
ObjectAtoms ==
    BuilderObjs \cup ScannerObjs \cup {"nb", "None", "many"}
    \cup {IntNames[i] : i \in 1..Len(IntNames)}
IsStrAtom(s) == s \notin ObjectAtoms

\* The strings of the model, for the substring test and for iteration over
\* a string's characters.
Chars == {"a", "b"}
Strings == {""} \cup Chars \cup {c \o d : c \in Chars, d \in Chars}

\* x in y for two strings.
InStr(x, y) == \E p \in Strings, q \in Strings : p \o x \o q = y

\* The characters of a string, in order.
RECURSIVE CharsOf(_)
CharsOf(s) ==
    IF s = "" THEN <<>>
    ELSE LET c == CHOOSE c \in Chars : \E r \in Strings : c \o r = s
             r == CHOOSE r \in Strings : c \o r = s
         IN  <<At(c)>> \o CharsOf(r)

\* `item in val`: "T", "F", or "E" when Python raises TypeError.
ItemIn(item, val) ==
    CASE val.t = "list" ->
            IF \E i \in 1..Len(val.l) : val.l[i] = item THEN "T" ELSE "F"
      [] val.t = "str" ->
            IF item.k = "atom" /\ IsStrAtom(item.v[1])
            THEN (IF InStr(item.v[1], val.a) THEN "T" ELSE "F")
            ELSE "E"
      [] val.t \in {"dict", "bdict"} ->
            IF item.k \in {"list", "dict"} THEN "E"
            ELSE IF item.k = "atom" /\ item.v[1] \in MKeys(val.m) THEN "T" ELSE "F"
      [] OTHER -> "E"

\* [x for x in items if x not in val]: [exc, l].
RECURSIVE FilterNotIn(_, _)
FilterNotIn(items, val) ==
    IF items = <<>> THEN [exc |-> "none", l |-> <<>>]
    ELSE LET r == ItemIn(Head(items), val)
             R == FilterNotIn(Tail(items), val)
         IN  IF r = "E" THEN [exc |-> "TypeError", l |-> <<>>]
             ELSE IF R.exc # "none" THEN R
             ELSE IF r = "T" THEN R
             ELSE [exc |-> "none", l |-> <<Head(items)>> \o R.l]

\* The elements `for x in val` visits: [exc, l].
IterOf(val) ==
    CASE val.t = "list" -> [exc |-> "none", l |-> val.l]
      [] val.t = "str" -> [exc |-> "none", l |-> CharsOf(val.a)]
      [] val.t \in {"dict", "bdict"} ->
            [exc |-> "none", l |-> [i \in 1..Len(val.m) |-> At(val.m[i][1])]]
      [] OTHER -> [exc |-> "TypeError", l |-> <<>>]

\* ------------------------------------------------- _delete_duplicates


\* The loop of _delete_duplicates: an element is dropped when an equal
\* hashable element came before it; an unhashable one is always kept.
RECURSIVE KeepFirst(_, _)
KeepFirst(l, seen) ==
    IF l = <<>> THEN <<>>
    ELSE IF Head(l).k \in {"list", "dict"}
    THEN <<Head(l)>> \o KeepFirst(Tail(l), seen)
    ELSE IF Head(l) \in seen
    THEN KeepFirst(Tail(l), seen)
    ELSE <<Head(l)>> \o KeepFirst(Tail(l), seen \cup {Head(l)})

delete_duplicates(l, keep_last) ==
    IF keep_last THEN Reverse(KeepFirst(Reverse(l), {})) ELSE KeepFirst(l, {})

\* self._dict[key] in ('', None)
IsEmptyOrNone(val) == val.t = "none" \/ (val.t = "str" /\ val.a = "")

\* The CPPDEFINES normalisation of a list: each element becomes a tuple.
\* [exc, l].
DefineItem(i) ==
    CASE i.k = "list" -> IF Len(i.v) >= 2 THEN Tup(<<i.v[1], i.v[2]>>) ELSE Tup(<<i.v[1]>>)
      [] i.k = "tuple" -> i
      [] OTHER -> Tup(<<i.v[1]>>)

NormalizeDefines(items) ==
    IF \E n \in 1..Len(items) : items[n].k = "list" /\ items[n].v = <<>>
    THEN [exc |-> "IndexError", l |-> <<>>]
    ELSE IF \E n \in 1..Len(items) : items[n].k = "dict"
    THEN [exc |-> "Unmodelled", l |-> <<>>]
    ELSE [exc |-> "none", l |-> [n \in 1..Len(items) |-> DefineItem(items[n])]]

\* --------------------------------------------------- Base.AppendUnique

\* self._dict[key] = <the list R.l>, unless computing it raised.
StoreList(S, e, key, R) ==
    IF R.exc # "none" THEN Raise(S, R.exc) ELSE StoreNew(S, e, key, ListV(R.l))

\* R.l followed by (or following) more elements.
Before(R, items) == IF R.exc # "none" THEN R ELSE [exc |-> "none", l |-> R.l \o items]
After(items, R) == IF R.exc # "none" THEN R ELSE [exc |-> "none", l |-> items \o R.l]
Ok(items) == [exc |-> "none", l |-> items]

\* self._dict[key].update(val) for two dicts.
UpdateInPlace(S, dk, val) ==
    LET R == DictSetPairs(S, dk, val.m) IN MutateObj(R.S, dk, R.bd)

\* val is a list (already without duplicates).
AppendUniqueList(S, e, key, val, delete_existing) ==
    LET dk == S.dict[e][key]
        nv == IF key = "CPPDEFINES" THEN NormalizeDefines(val.l) ELSE Ok(val.l)
        it == IterOf(dk)
        ndk == IF key = "CPPDEFINES"
               THEN (IF is_Dict(dk) THEN Ok(DefineTuples(dk.m))
                     ELSE IF is_String(dk) THEN Ok(<<Tup(<<dk.a>>)>>)
                     ELSE IF it.exc # "none" THEN it
                     ELSE NormalizeDefines(it.l))
               ELSE IF is_List(dk) THEN Ok(dk.l) ELSE Ok(<<ItemOf(dk)>>)
    IN  IF nv.exc # "none" THEN Raise(S, nv.exc)
        ELSE IF ndk.exc # "none" THEN Raise(S, ndk.exc)
        ELSE IF delete_existing
        THEN StoreList(S, e, key, Before(FilterNotIn(ndk.l, ListV(nv.l)), nv.l))
        ELSE StoreList(S, e, key, After(ndk.l, FilterNotIn(nv.l, ListV(ndk.l))))

\* val is not a list, the stored value is.
AppendUniqueToList(S, e, key, val, delete_existing) ==
    LET dk == S.dict[e][key]
    IN  IF key = "CPPDEFINES"
        THEN LET ndk == NormalizeDefines(dk.l)
                 nval == IF is_Dict(val) THEN ListV(DefineTuples(val.m))
                         ELSE IF is_String(val) THEN ListV(<<Tup(<<val.a>>)>>)
                         ELSE val
             IN  IF ndk.exc # "none" THEN Raise(S, ndk.exc)
                 ELSE IF ~is_List(nval) THEN Raise(S, "TypeError")
                 ELSE StoreList(S, e, key, Before(FilterNotIn(ndk.l, nval), nval.l))
        ELSE IF delete_existing
        THEN StoreList(S, e, key, Before(FilterNotIn(dk.l, val), <<ItemOf(val)>>))
        ELSE IF ItemIn(ItemOf(val), dk) = "F"
        THEN StoreNew(S, e, key, ListV(Append(dk.l, ItemOf(val))))
        ELSE S

\* The (i, j) tuples and bare names of a dict given to CPPDEFINES.
DefinePairsOrNames(m) ==
    [i \in 1..Len(m) |-> IF m[i][2] # "None" THEN Tup(<<m[i][1], m[i][2]>>)
                         ELSE At(m[i][1])]

\* Neither val nor the stored value is a list.
AppendUniqueScalars(S, e, key, val, delete_existing) ==
    LET dk == S.dict[e][key]
        dk1 == IF key # "CPPDEFINES" THEN dk
               ELSE IF is_String(dk) THEN ListV(<<At(dk.a)>>)
               ELSE IF is_Dict(dk) THEN ListV(DefineTuples(dk.m))
               ELSE dk
        isin == ItemIn(ItemOf(val), dk1)
        val1 == IF key # "CPPDEFINES" THEN val
                ELSE IF is_String(val)
                THEN (IF isin = "T" THEN ListV(<<>>) ELSE ListV(<<At(val.a)>>))
                ELSE IF is_Dict(val) THEN ListV(DefinePairsOrNames(val.m))
                ELSE val
        it == IterOf(dk1)
        F == IF it.exc # "none" THEN it ELSE FilterNotIn(it.l, val1)
        dk2 == IF delete_existing THEN ListV(F.l) ELSE dk1
    IN  IF key = "CPPDEFINES" /\ is_String(val) /\ isin = "E" THEN Raise(S, "TypeError")
        ELSE IF delete_existing /\ F.exc # "none" THEN Raise(S, F.exc)
        ELSE IF CanAdd(dk2, val1) THEN StoreNew(S, e, key, Add(dk2, val1))
        ELSE Raise(S, "TypeError")

AppendUniqueKey(S, e, key, val0, delete_existing) ==
    LET val == IF is_List(val0)
               THEN ListV(delete_duplicates(val0.l, delete_existing))
               ELSE val0
    IN  IF key \notin DOMAIN S.dict[e] THEN StoreNew(S, e, key, val)
        ELSE IF IsEmptyOrNone(S.dict[e][key]) THEN StoreNew(S, e, key, val)
        ELSE IF is_Dict(S.dict[e][key]) /\ is_Dict(val)
        THEN UpdateInPlace(S, S.dict[e][key], val)
        ELSE IF is_List(val) THEN AppendUniqueList(S, e, key, val, delete_existing)
        ELSE IF is_List(S.dict[e][key])
        THEN AppendUniqueToList(S, e, key, val, delete_existing)
        ELSE AppendUniqueScalars(S, e, key, val, delete_existing)

RECURSIVE AppendUniqueLoop(_, _, _, _)
AppendUniqueLoop(S, e, kw, delete_existing) ==
    IF kw = <<>> \/ S.exc # "none"
    THEN S
    ELSE AppendUniqueLoop(
            AppendUniqueKey(S, e, Head(kw)[1], Head(kw)[2], delete_existing),
            e, Tail(kw), delete_existing)

Base_AppendUnique(S, self, delete_existing, kw) ==
    LET S1 == AppendUniqueLoop(S, Subject(self), copy_non_reserved_keywords(kw),
                               delete_existing)
    IN  IF S1.exc # "none" THEN S1 ELSE scanner_map_delete(S1, self)

\* -------------------------------------------------- Base.PrependUnique

PrependUniqueKey(S, e, key, val0, delete_existing) ==
    LET val == IF is_List(val0)
               THEN ListV(delete_duplicates(val0.l, ~delete_existing))
               ELSE val0
    IN  IF key \notin DOMAIN S.dict[e] THEN StoreNew(S, e, key, val)
        ELSE IF IsEmptyOrNone(S.dict[e][key]) THEN StoreNew(S, e, key, val)
        ELSE LET dk == S.dict[e][key]
                 dkl == IF is_List(dk) THEN dk.l ELSE <<ItemOf(dk)>>
                 it == IterOf(dk)
                 F == IF it.exc # "none" THEN it ELSE FilterNotIn(it.l, val)
                 dk2 == IF delete_existing THEN ListV(F.l) ELSE dk
             IN  IF is_Dict(dk) /\ is_Dict(val) THEN UpdateInPlace(S, dk, val)
                 ELSE IF is_List(val)
                 THEN (IF delete_existing
                       THEN StoreList(S, e, key, After(val.l, FilterNotIn(dkl, val)))
                       ELSE StoreList(S, e, key, Before(FilterNotIn(val.l, ListV(dkl)), dkl)))
                 ELSE IF is_List(dk)
                 THEN (IF delete_existing
                       THEN StoreList(S, e, key, After(<<ItemOf(val)>>, FilterNotIn(dk.l, val)))
                       ELSE IF ItemIn(ItemOf(val), dk) = "F"
                       THEN StoreNew(S, e, key, ListV(<<ItemOf(val)>> \o dk.l))
                       ELSE S)
                 ELSE IF delete_existing /\ F.exc # "none" THEN Raise(S, F.exc)
                 ELSE IF CanAdd(val, dk2) THEN StoreNew(S, e, key, Add(val, dk2))
                 ELSE Raise(S, "TypeError")

RECURSIVE PrependUniqueLoop(_, _, _, _)
PrependUniqueLoop(S, e, kw, delete_existing) ==
    IF kw = <<>> \/ S.exc # "none"
    THEN S
    ELSE PrependUniqueLoop(
            PrependUniqueKey(S, e, Head(kw)[1], Head(kw)[2], delete_existing),
            e, Tail(kw), delete_existing)

Base_PrependUnique(S, self, delete_existing, kw) ==
    LET S1 == PrependUniqueLoop(S, Subject(self), copy_non_reserved_keywords(kw),
                                delete_existing)
    IN  IF S1.exc # "none" THEN S1 ELSE scanner_map_delete(S1, self)

\* --------------------------------------------------------- MergeFlags

\* SCons.Util.Split: a list is returned as it is, a string is split at
\* white space (the strings of the model hold none), anything else becomes
\* a one-element list.
Split(value) ==
    IF is_List(value) THEN value.l
    ELSE IF is_String(value) THEN (IF value.a = "" THEN <<>> ELSE <<At(value.a)>>)
    ELSE <<ItemOf(value)>>

\* A test of the whole name instead of its last four characters.
IsPATH(key) == key = "PATH"

\* key[-4:] == 'PATH'
PathPrefixes == {"", "CPP", "LIB", "R", "FRAMEWORK"}
EndsInPATH(key) == \E p \in PathPrefixes : p \o "PATH" = key

\* for v in orig: if v not in t: t.append(v)
RECURSIVE KeepLeftmost(_, _)
KeepLeftmost(l, t) ==
    IF l = <<>> THEN t
    ELSE IF \E i \in 1..Len(t) : t[i] = Head(l)
    THEN KeepLeftmost(Tail(l), t)
    ELSE KeepLeftmost(Tail(l), Append(t, Head(l)))

\* for v in orig[::-1]: if v not in t: t.insert(0, v)
RECURSIVE KeepRightmost(_, _)
KeepRightmost(l, t) ==
    IF l = <<>> THEN t
    ELSE IF \E i \in 1..Len(t) : t[i] = l[Len(l)]
    THEN KeepRightmost(SubSeq(l, 1, Len(l) - 1), t)
    ELSE KeepRightmost(SubSeq(l, 1, Len(l) - 1), <<l[Len(l)]>> \o t)

\* orig and value combined, before the duplicates are removed: the value
\* that the loops above iterate over.
MergedValue(got, value) ==
    IF got.exc # "none" THEN ListV(value)
    ELSE IF ~Truthy(got.val) THEN ListV(value)
    ELSE IF value = <<>> THEN got.val
    ELSE IF is_List(got.val) THEN ListV(got.val.l \o value)
    ELSE ListV(<<ItemOf(got.val)>> \o value)

\* A merge that removes repeated elements from the path variables only.
MergeFlagsKeyPathsOnly(S, self, key, value0) ==
    IF ~Truthy(value0) THEN S
    ELSE LET orig == MergedValue(GetItem(S, self, key), Split(value0))
             it == IterOf(orig)
         IN  IF it.exc # "none" THEN Raise(S, it.exc)
             ELSE SetItem(S, self, key,
                          ListV(IF EndsInPATH(key) THEN KeepLeftmost(it.l, <<>>)
                                ELSE it.l))

MergeFlagsKey(S, self, key, value0) ==
    IF ~Truthy(value0) THEN S
    ELSE LET orig == MergedValue(GetItem(S, self, key), Split(value0))
             it == IterOf(orig)
             t == IF EndsInPATH(key) THEN KeepLeftmost(it.l, <<>>)
                  ELSE KeepRightmost(it.l, <<>>)
         IN  IF it.exc # "none" THEN Raise(S, it.exc)
             ELSE SetItem(S, self, key, ListV(t))

RECURSIVE MergeFlagsLoop(_, _, _)
MergeFlagsLoop(S, self, args) ==
    IF args = <<>> \/ S.exc # "none"
    THEN S
    ELSE MergeFlagsLoop(MergeFlagsKey(S, self, Head(args)[1], Head(args)[2]),
                        self, Tail(args))

\* MergeFlags for args that is a dict already (a parsed mapping).
MergeFlags(S, self, args, unique) ==
    IF ~unique THEN Base_Append(S, self, args) ELSE MergeFlagsLoop(S, self, args)

\* ---------------------------------------------------------- ParseFlags
\* Python slices of a string: arg[:n] and arg[n:].
Upto(arg, n) == IF Len(arg) <= n THEN arg ELSE SubSeq(arg, 1, n)
From(arg, n) == IF Len(arg) <= n THEN "" ELSE SubSeq(arg, n + 1, Len(arg))
\* sub in arg
HasSub(arg, sub) ==
    \E i \in 1..Len(arg) :
        i + Len(sub) - 1 <= Len(arg) /\ SubSeq(arg, i, i + Len(sub) - 1) = sub

\* shlex.split(arg) for a string without quotes or escapes: its words.
RECURSIVE Words(_, _)
Words(arg, cur) ==
    IF arg = ""
    THEN IF cur = "" THEN <<>> ELSE <<cur>>
    ELSE IF Head(arg) = " "
    THEN (IF cur = "" THEN <<>> ELSE <<cur>>) \o Words(Tail(arg), "")
    ELSE Words(Tail(arg), cur \o Head(arg))
shlex_split(arg) == Words(arg, "")

\* The mapping ParseFlags starts from, its keys in their order.
ParseKeys ==
    <<"ASFLAGS", "CFLAGS", "CCFLAGS", "CXXFLAGS", "CPPDEFINES", "CPPFLAGS",
      "CPPPATH", "FRAMEWORKPATH", "FRAMEWORKS", "LIBPATH", "LIBS", "LINKFLAGS",
      "RPATH">>
EmptyMapping == [k \in {ParseKeys[i] : i \in 1..Len(ParseKeys)} |-> <<>>]

\* mapping[key].append(item)
MAppend(mapping, key, item) == [mapping EXCEPT ![key] = Append(@, item)]
\* self.fs.File(arg): the node of a file.
File(arg) == At("File(" \o arg \o ")")
\* A list of strings as one element of a list.
ListItem(names) == [k |-> "list", v |-> names, m |-> <<>>]

\* An append_define that keeps the argument as it is.
append_define_whole(mapping, name) == MAppend(mapping, "CPPDEFINES", At(name))

\* append_define: t = name.split('='); the name alone, or
\* [t[0], '='.join(t[1:])].
append_define(mapping, name) ==
    IF ~HasSub(name, "=")
    THEN MAppend(mapping, "CPPDEFINES", At(name))
    ELSE LET i == CHOOSE j \in 1..Len(name) :
                    /\ SubSeq(name, j, j) = "="
                    /\ \A h \in 1..(j - 1) : SubSeq(name, h, h) # "="
         IN  MAppend(mapping, "CPPDEFINES",
                     ListItem(<<Upto(name, i - 1), From(name, i)>>))

\* The multi-word flags without -arch.
MultiWordFlagsNoArch ==
    {"-include", "-imacros", "-isysroot", "-isystem", "-iquote", "-idirafter",
     "--param"}

\* The state of the loop of do_parse over the words: the mapping and
\* append_next_arg_to, "" for None.
MultiWordFlags ==
    {"-include", "-imacros", "-isysroot", "-isystem", "-iquote", "-idirafter",
     "-arch", "--param"}
CompileAndLinkFlags ==
    {"-mno-cygwin", "-pthread", "-openmp", "-fmerge-all-constants", "-fopenmp"}

\* A word after a flag that takes the next word, put into the mapping
\* without a look at what the flag was.
TakeNextArgAsIs(st, arg) ==
    [mapping |-> MAppend(st.mapping,
                         IF st.next \in MultiWordFlags THEN "CCFLAGS" ELSE st.next,
                         At(arg)),
     next |-> ""]

\* The word after a flag that takes the next word.
TakeNextArg(st, arg) ==
    LET to == st.next
        m == st.mapping
        t == Tup(<<to, arg>>)
        m1 == IF to = "CPPDEFINES" THEN append_define(m, arg)
              ELSE IF to \in {"-include", "-imacros"}
              THEN MAppend(m, "CCFLAGS", Tup(<<to, File(arg).v[1]>>))
              ELSE IF to \in {"-isysroot", "-arch"}
              THEN MAppend(MAppend(m, "CCFLAGS", t), "LINKFLAGS", t)
              ELSE IF to \in {"-isystem", "-iquote", "-idirafter", "--param"}
              THEN MAppend(m, "CCFLAGS", t)
              ELSE MAppend(m, to, At(arg))
    IN  [mapping |-> m1, next |-> ""]

\* A flag and its argument in one word, or the flag alone: what follows
\* the flag's two characters goes to key, or the next word will.
Joined(st, arg, key) ==
    IF From(arg, 2) # ""
    THEN [st EXCEPT !.mapping = IF key = "CPPDEFINES"
                                THEN append_define(st.mapping, From(arg, 2))
                                ELSE MAppend(st.mapping, key, At(From(arg, 2)))]
    ELSE [st EXCEPT !.next = key]

\* A linker word that looks for '-Wl,-R' before '-Wl,-R,'.
LinkerArgShortestFirst(m, arg) ==
    IF Upto(arg, 11) = "-Wl,-rpath=" THEN MAppend(m, "RPATH", At(From(arg, 11)))
    ELSE IF Upto(arg, 6) = "-Wl,-R" THEN MAppend(m, "RPATH", At(From(arg, 6)))
    ELSE IF Upto(arg, 7) = "-Wl,-R," THEN MAppend(m, "RPATH", At(From(arg, 7)))
    ELSE MAppend(m, "LINKFLAGS", At(arg))

\* A word that starts with '-Wl,': what follows '-Wl,-rpath=', '-Wl,-R,'
\* or '-Wl,-R' goes to RPATH, any other word whole to LINKFLAGS.
LinkerArg(m, arg) ==
    IF Upto(arg, 11) = "-Wl,-rpath=" THEN MAppend(m, "RPATH", At(From(arg, 11)))
    ELSE IF Upto(arg, 7) = "-Wl,-R," THEN MAppend(m, "RPATH", At(From(arg, 7)))
    ELSE IF Upto(arg, 6) = "-Wl,-R" THEN MAppend(m, "RPATH", At(From(arg, 6)))
    ELSE MAppend(m, "LINKFLAGS", At(arg))

\* A word in the place of a flag.
ClassifyArg(st, arg) ==
    LET m == st.mapping
        to(keys) == [st EXCEPT !.mapping =
                        [k \in DOMAIN m |-> IF k \in keys THEN Append(m[k], At(arg)) ELSE m[k]]]
    IN  IF Upto(arg, 1) \notin {"-", "+"}
        THEN [st EXCEPT !.mapping = MAppend(m, "LIBS", File(arg))]
        ELSE IF arg = "-dylib_file"
        THEN [mapping |-> MAppend(m, "LINKFLAGS", At(arg)), next |-> "LINKFLAGS"]
        ELSE IF Upto(arg, 2) = "-L" THEN Joined(st, arg, "LIBPATH")
        ELSE IF Upto(arg, 2) = "-l" THEN Joined(st, arg, "LIBS")
        ELSE IF Upto(arg, 2) = "-I" THEN Joined(st, arg, "CPPPATH")
        ELSE IF Upto(arg, 4) = "-Wa,"
        THEN [st EXCEPT !.mapping =
                MAppend(MAppend(m, "ASFLAGS", At(From(arg, 4))), "CCFLAGS", At(arg))]
        ELSE IF Upto(arg, 4) = "-Wl," THEN [st EXCEPT !.mapping = LinkerArg(m, arg)]
        ELSE IF Upto(arg, 4) = "-Wp," THEN to({"CPPFLAGS"})
        ELSE IF Upto(arg, 2) = "-D" THEN Joined(st, arg, "CPPDEFINES")
        ELSE IF arg = "-framework" THEN [st EXCEPT !.next = "FRAMEWORKS"]
        ELSE IF Upto(arg, 14) = "-frameworkdir="
        THEN [st EXCEPT !.mapping = MAppend(m, "FRAMEWORKPATH", At(From(arg, 14)))]
        ELSE IF Upto(arg, 2) = "-F" THEN Joined(st, arg, "FRAMEWORKPATH")
        ELSE IF arg \in CompileAndLinkFlags \/ Upto(arg, 10) = "-fsanitize"
        THEN to({"CCFLAGS", "LINKFLAGS"})
        ELSE IF arg = "-mwindows" THEN to({"LINKFLAGS"})
        ELSE IF Upto(arg, 5) = "-std="
        THEN IF HasSub(From(arg, 5), "++") THEN to({"CXXFLAGS"}) ELSE to({"CFLAGS"})
        ELSE IF Upto(arg, 1) = "+" THEN to({"CCFLAGS", "LINKFLAGS"})
        ELSE IF arg \in MultiWordFlags THEN [st EXCEPT !.next = arg]
        ELSE to({"CCFLAGS"})

\* One turn of the loop over the words.
ParseArg(st, arg) ==
    IF st.next # "" THEN TakeNextArg(st, arg) ELSE ClassifyArg(st, arg)

RECURSIVE ParseArgs(_, _)
ParseArgs(st, params) ==
    IF params = <<>> THEN st ELSE ParseArgs(ParseArg(st, Head(params)), Tail(params))

\* backtick(command): [exc, out].  run is what the command does when it is
\* run: its exit status and its output.
backtick(command, run) ==
    IF run.status # 0
    THEN [exc |-> "OSError", out |-> ""]
    ELSE [exc |-> "none", out |-> run.out]

\* do_parse(arg) for a string: R is [exc, mapping, runs], runs the number
\* of commands run so far.
do_parse(R, arg, run) ==
    IF R.exc # "none" \/ arg = ""
    THEN R
    ELSE LET B == IF Head(arg) = "!" THEN backtick(From(arg, 1), run)
                  ELSE [exc |-> "none", out |-> arg]
             n == IF Head(arg) = "!" THEN R.runs + 1 ELSE R.runs
         IN  IF B.exc # "none"
             THEN [R EXCEPT !.exc = B.exc, !.runs = n]
             ELSE [R EXCEPT !.runs = n,
                            !.mapping = ParseArgs([mapping |-> R.mapping, next |-> ""],
                                                  shlex_split(B.out)).mapping]

\* The strings of a sequence parsed as the words of one string, so that a
\* flag at the end of a string takes the first word of the next.
RECURSIVE JoinedFlags(_)
JoinedFlags(flags) ==
    IF flags = <<>> THEN ""
    ELSE IF Len(flags) = 1 THEN Head(flags)
    ELSE Head(flags) \o " " \o JoinedFlags(Tail(flags))
do_parse_joined(R, flags, run) == do_parse(R, JoinedFlags(flags), run)

\* do_parse(arg) for a sequence of strings.
RECURSIVE do_parse_all(_, _, _)
do_parse_all(R, flags, run) ==
    IF flags = <<>> THEN R
    ELSE do_parse_all(do_parse(R, Head(flags), run), Tail(flags), run)

\* ParseFlags(*flags): [exc, mapping, runs].
ParseFlags(flags, run) ==
    do_parse_all([exc |-> "none", mapping |-> EmptyMapping, runs |-> 0], flags, run)

\* The parsed mapping as the dict MergeFlags goes through, in its order.
MappingItems(mapping) ==
    [i \in 1..Len(ParseKeys) |-> <<ParseKeys[i], ListV(mapping[ParseKeys[i]])>>]

\* A MergeFlags that merges what was parsed before the command failed.
MergeFlagsParsedSoFar(S, self, flags, run, unique) ==
    LET R == ParseFlags(flags, run)
    IN  [MergeFlags(S, self, MappingItems(R.mapping), unique) EXCEPT !.exc = R.exc]

\* MergeFlags(args, unique) for args that is not a dict: a string, or a
\* list of strings, as the sequence of its strings.
MergeFlagsArgs(S, self, flags, run, unique) ==
    LET R == ParseFlags(flags, run)
    IN  IF R.exc # "none" THEN Raise(S, R.exc)
        ELSE MergeFlags(S, self, MappingItems(R.mapping), unique)

\* --------------------------------------------------------------- tools
\* A tool is a callable the program supplies, called with the environment:
\* tool_assign does env['X'] = ['t'], tool_append env.Append(X=['t']),
\* tool_append_word env.Append(X='t'), and tool_observe keeps in M a copy
\* of the X it finds.
ToolNames == {"tool_assign", "tool_append", "tool_append_word", "tool_observe"}
Tool(S, env, tool) ==
    IF tool = "tool_assign"
    THEN SetItem(S, env, "X", ListV(<<At("t")>>))
    ELSE IF tool = "tool_append"
    THEN Base_Append(S, env, <<<<"X", ListV(<<At("t")>>)>>>>)
    ELSE IF tool = "tool_append_word"
    THEN Base_Append(S, env, <<<<"X", StrV("t")>>>>)
    ELSE IF "X" \in DOMAIN S.dict[env]
    THEN Base_Replace(S, env, <<<<"M", S.dict[env]["X"]>>>>)
    ELSE S

\* An object a local variable refers to, after a step that ended in S: the
\* object as the store shows it while the store holds it; once the store
\* has dropped it nothing changes it any more.
Held(S, id) == id # 0 /\ id \in UsedIds(S)
ContentOf(S, id) ==
    LET slots == UNION {{S.dict[e][k] : k \in {x \in DOMAIN S.dict[e] : S.dict[e][x].id = id}} :
                        e \in BaseEnvs}
                 \cup {S.overrides[k] : k \in {x \in DOMAIN S.overrides : S.overrides[x].id = id}}
    IN  CHOOSE v \in slots : TRUE
TrackSave(S, sv) ==
    IF sv.id = 0 THEN sv
    ELSE IF Held(S, sv.id) THEN ContentOf(S, sv.id)
    ELSE [sv EXCEPT !.id = 0]

\* apply_tools(env, tools, toolpath=None): [S, save], save the objects the
\* caller's local save refers to.
RECURSIVE apply_tools(_, _, _, _)
\* The tools left to run once one has run and ended in S.
ToolsAfter(S, env, save, tools) ==
    apply_tools(S, env, [k \in DOMAIN save |-> TrackSave(S, save[k])], tools)

apply_tools(S, env, save, tools) ==
    IF tools = <<>> \/ S.exc # "none"
    THEN [S |-> S, save |-> save]
    ELSE ToolsAfter(Tool(S, env, Head(tools)), env, save, Tail(tools))

\* ----------------------------------------------------- Clone, Override

\* SCons.Subst.scons_subst_once(value, env, key) for a value that holds no
\* '$': the value.
scons_subst_once(value, S, self, key) == value

\* The copy that shares every value with the original.
shallow_copy_dict(S, self, clone) ==
    [S EXCEPT !.dict[clone] = [k \in DOMAIN S.dict[self] \ {"BUILDERS"} |-> S.dict[self][k]]]

\* semi_deepcopy_dict(self._dict, ['BUILDERS']): every value but BUILDERS'
\* is copied, a mutable one into a new object.
RECURSIVE CopyInto(_, _, _, _)
CopyInto(S, clone, d, keys) ==
    IF keys = {} THEN S
    ELSE LET k == CHOOSE x \in keys : TRUE
         IN  CopyInto(StoreNew(S, clone, k, d[k]), clone, d, keys \ {k})

semi_deepcopy_dict(S, self, clone) ==
    LET d == S.dict[self]
        S0 == [S EXCEPT !.dict[clone] = EmptyMap]
    IN  IF \E k \in DOMAIN d \ {"BUILDERS"} : d[k].t = "bdict"
        THEN Raise(S0, "TypeError")
        ELSE CopyInto(S0, clone, d, DOMAIN d \ {"BUILDERS"})

\* clone._dict['BUILDERS'] = BuilderDict(builders, clone)
CloneBuilders(S, self, clone) ==
    LET builders == IF "BUILDERS" \in DOMAIN S.dict[self]
                    THEN S.dict[self]["BUILDERS"] ELSE DictV(<<>>)
    IN  IF ~is_Dict(builders) THEN Raise(S, "AttributeError")
        ELSE LET R == BuilderDict___init__(S, builders.m, clone)
             IN  StoreNew(R.S, clone, "BUILDERS", R.bd)

\* A loop that binds every added method to the clone.
RECURSIVE CloneMethodsAll(_, _, _, _)
CloneMethodsAll(S, self, clone, mws) ==
    IF mws = <<>> THEN S
    ELSE LET R == MethodWrapper(S, clone, Head(mws).method, Head(mws).name)
         IN  CloneMethodsAll([R.S EXCEPT !.added_methods[clone] = Append(@, R.mw)],
                             self, clone, Tail(mws))

\* The loop of Clone over self.added_methods: a method whose attribute
\* still is the added wrapper is bound to the clone.
RECURSIVE CloneMethods(_, _, _, _)
CloneMethods(S, self, clone, mws) ==
    IF mws = <<>> THEN S
    ELSE LET mw == Head(mws)
         IN  IF mw.name \notin DOMAIN S.attrs[self]
             THEN Raise(S, "AttributeError")
             ELSE IF S.attrs[self][mw.name] # mw
             THEN CloneMethods(S, self, clone, Tail(mws))
             ELSE LET R == MethodWrapper(S, clone, mw.method, mw.name)
                      S1 == [R.S EXCEPT !.added_methods[clone] = Append(@, R.mw)]
                  IN  CloneMethods(S1, self, clone, Tail(mws))

\* Base.Clone, the copy: copy.copy(self), the copied store, the builders
\* and added methods bound to the clone, an empty _memo.
CloneCopied(S, self, clone) ==
    LET \* copy.copy(self): the clone's __dict__ starts as the original's
        S0 == [S EXCEPT !.attrs[clone] = S.attrs[self],
                        !.added_methods[clone] = S.added_methods[self],
                        !.decider[clone] = S.decider[self]]
        S1 == semi_deepcopy_dict(S0, self, clone)
        S2 == IF S1.exc # "none" THEN S1 ELSE CloneBuilders(S1, self, clone)
        S3 == IF S2.exc # "none" THEN S2
              ELSE CloneMethods([S2 EXCEPT !.added_methods[clone] = <<>>],
                                self, clone, S2.added_methods[self])
    IN  IF S3.exc # "none" THEN S3
        ELSE [S3 EXCEPT !.memo[clone] = [valid |-> FALSE, map |-> EmptyMap]]

\* Base.Clone, the keywords: Replace(**new), the tools, Replace(**new)
\* again; a step is skipped once an exception is on its way out.
ReplaceIfOk(S, clone, new) ==
    IF S.exc # "none" THEN S ELSE Base_Replace(S, clone, new)

ApplyToolsIfOk(S, clone, tools) ==
    IF S.exc # "none" THEN S ELSE apply_tools(S, clone, EmptyMap, tools).S

MergeFlagsIfOk(S, clone, parse_flags) ==
    IF S.exc # "none" \/ parse_flags = <<>> THEN S
    ELSE MergeFlags(S, clone, parse_flags, TRUE)

\* Base.Clone(tools, parse_flags, **kw); parse_flags is a mapping of flags
\* already parsed, <<>> for None.  clone names the new environment.
Base_CloneWith(S, self, clone, tools, parse_flags, kw) ==
    LET o == copy_non_reserved_keywords(kw)
        new == [i \in 1..Len(o) |-> <<o[i][1], scons_subst_once(o[i][2], S, self, o[i][1])>>]
    IN  MergeFlagsIfOk(
            ReplaceIfOk(
                ApplyToolsIfOk(
                    ReplaceIfOk(CloneCopied(S, self, clone), clone, new),
                    clone, tools),
                clone, new),
            clone, parse_flags)

\* Base.Clone with no tools and no parse_flags.
Base_Clone(S, self, clone, kw) == Base_CloneWith(S, self, clone, <<>>, <<>>, kw)

\* env.MergeFlags(merges) of Override: merges is a parsed mapping or a
\* string of flags that runs no command.
NoCommand == [status |-> 0, out |-> ""]
MergeMerges(S, merges) ==
    IF is_Dict(merges)
    THEN MergeFlags(S, "O", merges.m, TRUE)
    ELSE MergeFlagsArgs(S, "O", <<merges.a>>, NoCommand, TRUE)

\* An Override that merges the flags before it puts the overrides in place.
OverrideWrapFlagsFirst(S, self, o_kw) ==
    LET o == copy_non_reserved_keywords(o_kw)
        plain == KwWithout(o, "parse_flags")
        S0 == [S EXCEPT !.overrides = EmptyMap]
        S1 == IF "parse_flags" \in KwKeys(o) /\ Truthy(KwValue(o, "parse_flags"))
              THEN MergeMerges(S0, KwValue(o, "parse_flags"))
              ELSE S0
    IN  [S |-> OverrideEnvironment__update(S1, plain), env |-> "O"]

\* The part of Override that makes the OverrideEnvironment: [S, env].
OverrideWrap(S, self, o_kw) ==
    LET o == copy_non_reserved_keywords(o_kw)
        plain == KwWithout(o, "parse_flags")
        ov == [i \in 1..Len(plain) |->
                 <<plain[i][1], scons_subst_once(plain[i][2], S, self, plain[i][1])>>]
        S1 == OverrideEnvironment__update([S EXCEPT !.overrides = EmptyMap], ov)
    IN  IF "parse_flags" \in KwKeys(o) /\ Truthy(KwValue(o, "parse_flags"))
        THEN [S |-> MergeMerges(S1, KwValue(o, "parse_flags")), env |-> "O"]
        ELSE [S |-> S1, env |-> "O"]

\* An Override that makes a wrapper whatever it is given.
OverrideAlwaysWraps(S, self, o_kw) == OverrideWrap(S, self, o_kw)

\* SubstitutionEnvironment.Override: [S, env], env the environment returned.
Override(S, self, o_kw) ==
    IF copy_non_reserved_keywords(o_kw) = <<>>
    THEN [S |-> S, env |-> self]
    ELSE OverrideWrap(S, self, o_kw)

\* ------------------------------------------- in-place mutation of values
\* What a caller does to the object that env[key] returns.

\* env[key].append(x)
list_append(S, self, key, x) ==
    LET got == GetItem(S, self, key)
    IN  IF got.exc # "none" THEN Raise(S, got.exc)
        ELSE IF ~is_List(got.val) THEN Raise(S, "AttributeError")
        ELSE MutateObj(S, got.val, ListV(Append(got.val.l, At(x))))

\* env[key][name] = v
mapping_setitem(S, self, key, name, v) ==
    LET got == GetItem(S, self, key)
    IN  IF got.exc # "none" THEN Raise(S, got.exc)
        ELSE IF ~is_Dict(got.val) THEN Raise(S, "TypeError")
        ELSE LET R == DictSet(S, got.val, name, v)
             IN  MutateObj(R.S, got.val, R.bd)

\* del env[key][name]
mapping_delitem(S, self, key, name) ==
    LET got == GetItem(S, self, key)
    IN  IF got.exc # "none" THEN Raise(S, got.exc)
        ELSE IF ~is_Dict(got.val) THEN Raise(S, "TypeError")
        ELSE IF got.val.t = "bdict"
        THEN LET R == BuilderDict___delitem__(S, got.val, name)
             IN  MutateObj(R.S, got.val, R.bd)
        ELSE IF name \notin MKeys(got.val.m) THEN Raise(S, "KeyError")
        ELSE MutateObj(S, got.val, DictV(MDel(got.val.m, name)))

\* env[key].update(mapping)
mapping_update(S, self, key, mapping) ==
    LET got == GetItem(S, self, key)
    IN  IF got.exc # "none" THEN Raise(S, got.exc)
        ELSE IF ~is_Dict(got.val) THEN Raise(S, "AttributeError")
        ELSE LET R == DictSetPairs(S, got.val, mapping)
             IN  MutateObj(R.S, got.val, R.bd)

\* ------------------------------------------------------- construction

\* A function of the module, and the method of an environment bound to it.
Function(name) == [object |-> "", method |-> name]
BoundMethod(self, name) == [object |-> self, method |-> name]

\* The objects a caller may pass as a decider function.
Callables == {"f"}

\* Base.Decider after its first line: the selection of the function, which
\* is installed as decide_target and decide_source.
DeciderSelect(S, self, function) ==
    LET e == Subject(self)
        install(S1, f) == [S1 EXCEPT !.decider[e].decide_target = f,
                                     !.decider[e].decide_source = f]
    IN  CASE function \in {"MD5", "content"} ->
                install(S, BoundMethod(self, "_changed_content"))
          [] function \in {"MD5-timestamp", "content-timestamp"} ->
                install(S, BoundMethod(self, "_changed_timestamp_then_content"))
          [] function \in {"timestamp-newer", "make"} ->
                install([S EXCEPT !.decider[e].cache_timestamp_newer = TRUE],
                        BoundMethod(self, "_changed_timestamp_newer"))
          [] function = "timestamp-match" ->
                install(S, BoundMethod(self, "_changed_timestamp_match"))
          [] function \in Callables -> install(S, Function(function))
          [] OTHER -> Raise(S, "UserError")

\* Base.Decider without the reset of the flag at its start.
DeciderKeepsFlag(S, self, function) == DeciderSelect(S, self, function)

\* Base.Decider: function is the name of a selector, a callable, or
\* anything else; setting an attribute of O sets the subject's.
Decider(S, self, function) ==
    DeciderSelect([S EXCEPT !.decider[Subject(self)].cache_timestamp_newer = FALSE],
                  self, function)

Nothing ==
    [dict |-> [e \in BaseEnvs |-> EmptyMap],
     overrides |-> EmptyMap,
     attrs |-> [e \in BaseEnvs |-> EmptyMap],
     memo |-> [e \in BaseEnvs |-> [valid |-> FALSE, map |-> EmptyMap]],
     added_methods |-> [e \in BaseEnvs |-> <<>>],
     decider |-> [e \in BaseEnvs |->
                    [cache_timestamp_newer |-> FALSE,
                     decide_target |-> Function("default_decide_target"),
                     decide_source |-> Function("default_decide_source")]],
     exc |-> "none"]

\* Base.__init__(platform='posix', tools=[], **kw) over default construction
\* variables that hold an empty BUILDERS mapping and an empty SCANNERS list.
Base___init__(kw) ==
    LET S1 == StoreNew(Nothing, "E", "SCANNERS", ListV(<<>>))
        R == BuilderDict___init__(S1, <<>>, "E")
        S2 == StoreNew(R.S, "E", "BUILDERS", R.bd)
        S3 == StoreNew(S2, "E", "PLATFORM", StrV("posix"))
    IN  Base_Replace(S3, "E", kw)

\* for key, val in save.items(): self._dict[key] = val
RECURSIVE RestoreSaved(_, _, _, _)
RestoreSaved(S, e, save, keys) ==
    IF keys = {} THEN S
    ELSE LET k == CHOOSE x \in keys : TRUE
             S1 == IF Held(S, save[k].id)
                   THEN [S EXCEPT !.dict[e] = Put(@, k, save[k])]
                   ELSE StoreNew(S, e, k, save[k])
         IN  RestoreSaved(S1, e, save, keys \ {k})

\* Base.__init__(platform='posix', tools=tools, parse_flags=parse_flags,
\* **kw): the variables are applied, kept in save, the tools run, the
\* saved values are put back and the flags merged.
RestoreIfOk(R) ==
    IF R.S.exc # "none" THEN R.S ELSE RestoreSaved(R.S, "E", R.save, DOMAIN R.save)

ToolsOnSeeded(S, kw, tools) ==
    IF S.exc # "none" THEN S
    ELSE RestoreIfOk(apply_tools(S, "E",
                                 [k \in KwKeys(kw) \cap DOMAIN S.dict["E"] |-> S.dict["E"][k]],
                                 tools))

Base___init__With(kw, tools, parse_flags) ==
    MergeFlagsIfOk(ToolsOnSeeded(Base___init__(kw), kw, tools), "E", parse_flags)

\* ------------------------------------------------------------- actions

\* The values the model keeps: lists and mappings of at most MaxLen
\* entries, strings of the model's alphabet.
ValBounded(v) ==
    /\ Len(v.l) <= MaxLen
    /\ Len(v.m) <= MaxLen
    /\ v.t = "str" => v.a \in Strings \cup {"posix", "win32", "darwin"}
    /\ v.t = "int" => v.a \in {"0", "1", "2"}

Bounded(S) ==
    /\ S.exc # "Unmodelled"
    /\ \A e \in BaseEnvs : \A k \in DOMAIN S.dict[e] : ValBounded(S.dict[e][k])
    /\ \A k \in DOMAIN S.overrides : ValBounded(S.overrides[k])

\* Object identities are kept up to renaming: after a call every mutable
\* object is numbered by the first slot that holds it, the slots taken in
\* the order E, C, O and, within an environment, in the order of KeyOrder.
KeyOrder ==
    <<"BUILDERS", "SCANNERS", "PLATFORM", "X", "M", "TARGET", "CPPDEFINES",
      "CPPPATH", "LIBS", "ASFLAGS", "CFLAGS", "CCFLAGS", "CXXFLAGS", "CPPFLAGS",
      "FRAMEWORKPATH", "FRAMEWORKS", "LIBPATH", "LINKFLAGS", "RPATH">>
KeyIndex(k) == CHOOSE i \in 1..Len(KeyOrder) : KeyOrder[i] = k
SlotIds(S, id) ==
    {KeyIndex(k) : k \in {x \in DOMAIN S.dict["E"] : S.dict["E"][x].id = id}}
    \cup {Len(KeyOrder) + KeyIndex(k) :
            k \in {x \in DOMAIN S.dict["C"] : S.dict["C"][x].id = id}}
    \cup {2 * Len(KeyOrder) + KeyIndex(k) :
            k \in {x \in DOMAIN S.overrides : S.overrides[x].id = id}}
CanonId(S, id) ==
    IF id = 0 THEN 0
    ELSE CHOOSE i \in SlotIds(S, id) : \A j \in SlotIds(S, id) : i <= j
Canon(S) ==
    [S EXCEPT
        !.dict = [e \in BaseEnvs |-> [k \in DOMAIN S.dict[e] |->
                    [S.dict[e][k] EXCEPT !.id = CanonId(S, @)]]],
        !.overrides = [k \in DOMAIN S.overrides |->
                    [S.overrides[k] EXCEPT !.id = CanonId(S, @)]]]

\* The identities of method wrappers are kept up to renaming in the same
\* way: a wrapper is numbered by the first place that holds it, the places
\* being E's added methods, E's attributes, C's added methods, C's
\* attributes.
AttrOrder == <<"f", "g", "m">>
AttrIndex(n) == CHOOSE i \in 1..Len(AttrOrder) : AttrOrder[i] = n
IsWrapper(a) == a.cls = "MethodWrapper"
EnvOffset(e) == IF e = "E" THEN 0 ELSE 2 * (MaxMethods + Len(AttrOrder))
WrapperSlots(S, id) ==
    UNION {{EnvOffset(e) + i : i \in {j \in 1..Len(S.added_methods[e]) :
                                        S.added_methods[e][j].id = id}}
           \cup {EnvOffset(e) + MaxMethods + Len(AttrOrder) + AttrIndex(n) :
                   n \in {x \in DOMAIN S.attrs[e] :
                            IsWrapper(S.attrs[e][x]) /\ S.attrs[e][x].id = id}} :
           e \in BaseEnvs}
CanonWrapperId(S, id) ==
    CHOOSE i \in WrapperSlots(S, id) : \A j \in WrapperSlots(S, id) : i <= j
CanonWrapper(S, a) == IF IsWrapper(a) THEN [a EXCEPT !.id = CanonWrapperId(S, @)] ELSE a
CanonWrappers(S) ==
    [S EXCEPT
        !.attrs = [e \in BaseEnvs |-> [n \in DOMAIN S.attrs[e] |->
                      CanonWrapper(S, S.attrs[e][n])]],
        !.added_methods = [e \in BaseEnvs |-> [i \in 1..Len(S.added_methods[e]) |->
                      CanonWrapper(S, S.added_methods[e][i])]]]

\* A call ended in state S, by a return or by an exception (S.exc): what
\* it did to the environments stays done either way.
CommitShared(S) ==
    /\ Bounded(S)
    /\ dict' = Canon(S).dict
    /\ overrides' = Canon(S).overrides
    /\ attrs' = CanonWrappers(S).attrs
    /\ memo' = S.memo
    /\ added_methods' = CanonWrappers(S).added_methods
    /\ decider' = S.decider

\* A call of the single-threaded program: no other thread is running.
Commit(S) == CommitShared(S) /\ UNCHANGED <<threads, held>>

\* Each action is a call by the program that owns the environments; Selfs
\* are the receivers, the other parameters the arguments it draws from.

Call___setitem__(Selfs, Keys, Vals) ==
    \E self \in Selfs \cap live, key \in Keys, value \in Vals :
        Commit(SetItem(Cur, self, key, value)) /\ UNCHANGED live

Call___delitem__(Selfs, Keys) ==
    \E self \in Selfs \cap live, key \in Keys :
        Commit(DelItem(Cur, self, key)) /\ UNCHANGED live

Call_setdefault(Selfs, Keys, Vals) ==
    \E self \in Selfs \cap live, key \in Keys, default \in Vals :
        Commit(setdefault(Cur, self, key, default)) /\ UNCHANGED live

Call_Replace(Selfs, Kws) ==
    \E self \in Selfs \cap live, kw \in Kws :
        Commit(Replace(Cur, self, kw)) /\ UNCHANGED live

Call_SetDefault(Selfs, Kws) ==
    \E self \in Selfs \cap live, kw \in Kws :
        Commit(Base_SetDefault(Cur, self, kw)) /\ UNCHANGED live

Call_Append(Selfs, Kws) ==
    \E self \in Selfs \cap live, kw \in Kws :
        Commit(Base_Append(Cur, self, kw)) /\ UNCHANGED live

Call_Prepend(Selfs, Kws) ==
    \E self \in Selfs \cap live, kw \in Kws :
        Commit(Base_Prepend(Cur, self, kw)) /\ UNCHANGED live

Call_AppendUnique(Selfs, Kws) ==
    \E self \in Selfs \cap live, kw \in Kws, delete_existing \in BOOLEAN :
        Commit(Base_AppendUnique(Cur, self, delete_existing, kw)) /\ UNCHANGED live

Call_PrependUnique(Selfs, Kws) ==
    \E self \in Selfs \cap live, kw \in Kws, delete_existing \in BOOLEAN :
        Commit(Base_PrependUnique(Cur, self, delete_existing, kw)) /\ UNCHANGED live

Call_MergeFlags(Selfs, Kws) ==
    \E self \in Selfs \cap live, args \in Kws, unique \in BOOLEAN :
        Commit(MergeFlags(Cur, self, args, unique)) /\ UNCHANGED live

\* clone = E.Clone(**kw); a Clone that raises returns no environment.
\* A call that returns a new environment env when it ends without an
\* exception in S, and leaves nothing behind when it raises.
CommitNew(S, env) ==
    IF S.exc = "none"
    THEN Commit(S) /\ live' = live \cup {env}
    ELSE UNCHANGED vars

Call_Clone(Kws) ==
    \E kw \in Kws :
        /\ "C" \notin live
        /\ CommitNew(Base_Clone(Cur, "E", "C", kw), "C")

Call_AddMethod(Selfs, Functions, Names) ==
    \E self \in Selfs \cap live, function \in Functions, name \in Names :
        /\ Len(added_methods[Subject(self)]) < MaxMethods
        /\ Commit(AddMethod(Cur, self, function, name)) /\ UNCHANGED live

Call_RemoveMethod(Selfs, Functions) ==
    \E self \in Selfs \cap live, function \in Functions :
        Commit(RemoveMethod(Cur, self, function)) /\ UNCHANGED live

Call_setattr(Selfs, Names, Values) ==
    \E self \in Selfs \cap live, name \in Names, value \in Values :
        Commit(setattr(Cur, self, name, value)) /\ UNCHANGED live

Call_CloneWith(ToolLists, Flags, Kws) ==
    \E tools \in ToolLists, parse_flags \in Flags, kw \in Kws :
        /\ "C" \notin live
        /\ CommitNew(Base_CloneWith(Cur, "E", "C", tools, parse_flags, kw), "C")

Call_MergeFlagsArgs(Selfs, Flags, Runs) ==
    \E self \in Selfs \cap live, flags \in Flags, run \in Runs :
        Commit(MergeFlagsArgs(Cur, self, flags, run, TRUE)) /\ UNCHANGED live

CommitReturned(R) == CommitNew(R.S, R.env)

\* E.Override(overrides); an Override that raises returns no environment.
Call_Override(Kws) ==
    \E o_kw \in Kws :
        /\ "O" \notin live
        /\ CommitReturned(Override(Cur, "E", o_kw))

Call_list_append(Selfs, Keys, Xs) ==
    \E self \in Selfs \cap live, key \in Keys, x \in Xs :
        Commit(list_append(Cur, self, key, x)) /\ UNCHANGED live

Call_mapping_setitem(Selfs, Keys, Items) ==
    \E self \in Selfs \cap live, key \in Keys, item \in Items :
        Commit(mapping_setitem(Cur, self, key, item[1], item[2])) /\ UNCHANGED live

Call_mapping_delitem(Selfs, Keys, Names) ==
    \E self \in Selfs \cap live, key \in Keys, name \in Names :
        Commit(mapping_delitem(Cur, self, key, name)) /\ UNCHANGED live

Call_mapping_update(Selfs, Keys, Maps) ==
    \E self \in Selfs \cap live, key \in Keys, mapping \in Maps :
        Commit(mapping_update(Cur, self, key, mapping)) /\ UNCHANGED live

Call_get_scanner(Selfs, Skeys) ==
    \E self \in Selfs \cap live, skey \in Skeys :
        Commit(get_scanner(Cur, self, skey).S) /\ UNCHANGED live

Call_Decider(Selfs, Functions) ==
    \E self \in Selfs \cap live, function \in Functions :
        Commit(Decider(Cur, self, function)) /\ UNCHANGED live

\* No thread but the program's own.
NoThreads == [t \in {} |-> ""]

\* The program has constructed E, and the construction ended in S.
Constructed(S) ==
    /\ S.exc = "none"
    /\ live = {"E"}
    /\ dict = Canon(S).dict
    /\ overrides = EmptyMap
    /\ attrs = S.attrs
    /\ memo = S.memo
    /\ added_methods = S.added_methods
    /\ decider = S.decider

InitWith(Kws) ==
    \E kw \in Kws :
        /\ Constructed(Base___init__(kw))
        /\ threads = NoThreads
        /\ held = {}

\* --------------------------------- an environment and an override over it

VarKeys == {"X", "TARGET"}
VarVals == {ListV(<<At("a")>>), ListV(<<At("b")>>)}
VarKws == {<<<<k, v>>>> : k \in VarKeys, v \in VarVals}

InitOverride == InitWith({<<>>, <<<<"X", ListV(<<At("a")>>)>>>>})

NextOverride ==
    \/ Call___setitem__(AllEnvs, VarKeys, VarVals)
    \/ Call___delitem__(AllEnvs, VarKeys)
    \/ Call_setdefault(AllEnvs, VarKeys, VarVals)
    \/ Call_Replace(AllEnvs, VarKws)
    \/ Call_SetDefault(AllEnvs, VarKws)
    \/ Call_Append(AllEnvs, VarKws)
    \/ Call_Prepend(AllEnvs, VarKws)
    \/ Call_AppendUnique(AllEnvs, VarKws)
    \/ Call_PrependUnique(AllEnvs, VarKws)
    \/ Call_MergeFlags(AllEnvs, VarKws)
    \/ Call_Override(VarKws)

SpecOverride == InitOverride /\ [][NextOverride]_vars

\* A store without the identities of its objects: what reads of its
\* variables return.
StoreOf(d) == [k \in DOMAIN d |-> [d[k] EXCEPT !.id = 0]]
\* What a side of a combination contributes when the other side is a
\* sequence: its elements when it is one itself, itself when it is a
\* scalar that is not empty, nothing otherwise.
Members(v) == IF is_List(v) THEN v.l ELSE IF Truthy(v) THEN <<ItemOf(v)>> ELSE <<>>
\* Two values are the same but for the identity of the object.
Same(v, w) == [v EXCEPT !.id = 0] = [w EXCEPT !.id = 0]

\* C1: starting from a store without reserved names, after any sequence of
\* public writes no reserved name is a variable of a Base environment: every
\* attempt to set one is dropped.
C1_NoReservedName ==
    \A e \in BaseEnvs : DOMAIN dict[e] \cap reserved_construction_var_names = {}

\* C2: deleting a key through the override environment removes it from the
\* override layer only: a key the subject holds stays in the subject with
\* its value, and the next read through the override environment returns
\* the subject's value.
C2_DeleteKeepsSubject ==
    "O" \in live =>
        \A key \in VarKeys \cap DOMAIN dict["E"] :
            LET S == DelItem(Cur, "O", key)
            IN  /\ StoreOf(S.dict["E"]) = StoreOf(dict["E"])
                /\ GetItem(S, "O", key).exc = "none"
                /\ PyEq(GetItem(S, "O", key).val, dict["E"][key])

\* C3: Append, Prepend, AppendUnique and PrependUnique called on the
\* override environment leave every variable of the subject as it was.
C3_MergeOnOverrideKeepsSubject ==
    "O" \in live =>
        \A kw \in VarKws, delete_existing \in BOOLEAN :
            \A S \in {Base_Append(Cur, "O", kw), Base_Prepend(Cur, "O", kw),
                      Base_AppendUnique(Cur, "O", delete_existing, kw),
                      Base_PrependUnique(Cur, "O", delete_existing, kw)} :
                StoreOf(S.dict["E"]) = StoreOf(dict["E"])

\* C4: item assignment, Replace and setdefault on the override environment
\* change only the override layer: the subject's store stays as it was,
\* and a read through the override environment returns the value written.
\* Override, when it makes the layer, leaves the subject's store as it was
\* and puts every key it is given into the layer.
C4_WriteOnOverrideKeepsSubject ==
    IF "O" \notin live
    THEN \A kw \in VarKws :
            LET R == Override(Cur, "E", kw)
            IN  /\ StoreOf(R.S.dict["E"]) = StoreOf(dict["E"])
                /\ R.S.attrs = attrs
                /\ \A i \in 1..Len(copy_non_reserved_keywords(kw)) :
                     LET p == copy_non_reserved_keywords(kw)[i]
                     IN  R.env = "O" /\ p[1] \in DOMAIN R.S.overrides
    ELSE
        /\ \A key \in VarKeys, value \in VarVals :
            LET S == SetItem(Cur, "O", key, value)
            IN  /\ StoreOf(S.dict["E"]) = StoreOf(dict["E"])
                /\ S.attrs = attrs
                /\ PyEq(GetItem(S, "O", key).val, value)
        /\ \A key \in VarKeys, value \in VarVals :
            LET S == setdefault(Cur, "O", key, value)
            IN  /\ StoreOf(S.dict["E"]) = StoreOf(dict["E"])
                /\ S.attrs = attrs
                /\ IF Contains(Cur, "O", key)
                   THEN StoreOf(S.overrides) = StoreOf(overrides)
                   ELSE PyEq(GetItem(S, "O", key).val, value)
        /\ \A kw \in VarKws :
            LET S == Replace(Cur, "O", kw)
            IN  /\ StoreOf(S.dict["E"]) = StoreOf(dict["E"])
                /\ S.attrs = attrs
                /\ \A i \in 1..Len(copy_non_reserved_keywords(kw)) :
                     LET p == copy_non_reserved_keywords(kw)[i]
                     IN  PyEq(GetItem(S, "O", p[1]).val, p[2])

\* An override layer that holds X with a value that differs from the one
\* the subject still holds.
C4_Witness ==
    /\ "O" \in live
    /\ "X" \in DOMAIN overrides /\ "X" \in DOMAIN dict["E"]
    /\ ~PyEq(overrides["X"], dict["E"]["X"])

\* The elements of l at the indices idx, in the order of l.
RECURSIVE AtIndices(_, _, _)
AtIndices(l, idx, i) ==
    IF i > Len(l) THEN <<>>
    ELSE (IF i \in idx THEN <<l[i]>> ELSE <<>>) \o AtIndices(l, idx, i + 1)

Elems(l) == {l[i] : i \in 1..Len(l)}
FirstOccurrences(l) == {i \in 1..Len(l) : \A j \in 1..(i - 1) : l[j] # l[i]}
LastOccurrences(l) == {i \in 1..Len(l) : \A j \in (i + 1)..Len(l) : l[j] # l[i]}

\* The lists of at most three elements, one of them a list, which cannot
\* be hashed.
Unhashable == [k |-> "list", v |-> <<"a">>, m |-> <<>>]
IncomingRepeats ==
    UNION {[1..n -> {At("a"), At("b"), Unhashable}] : n \in 0..3}

\* The list the duplicate-removal pass is to leave: the first occurrences
\* (the last ones when delete_existing) and every unhashable element.
WithoutRepeats(l, delete_existing) ==
    AtIndices(l, {i \in 1..Len(l) :
                    \/ l[i] = Unhashable
                    \/ i \in (IF delete_existing THEN LastOccurrences(l)
                              ELSE FirstOccurrences(l))}, 1)

\* C12: AppendUnique and PrependUnique of a list to a variable that is not
\* set store the list without its repeated elements: the first occurrence
\* of each is kept when delete_existing=False, the last when
\* delete_existing=True, and an unhashable element is always kept.
C12_DuplicatesPass ==
    "X" \notin DOMAIN dict["E"] =>
        \A l \in IncomingRepeats, delete_existing \in BOOLEAN :
            /\ Base_AppendUnique(Cur, "E", delete_existing,
                    <<<<"X", ListV(l)>>>>).dict["E"]["X"].l
                 = WithoutRepeats(l, delete_existing)
            /\ Base_PrependUnique(Cur, "E", delete_existing,
                    <<<<"X", ListV(l)>>>>).dict["E"]["X"].l
                 = WithoutRepeats(l, delete_existing)

\* C15: SetDefault leaves every variable that could be read before the call
\* with the value it had, on a base environment and on the override
\* environment, and a variable that could not be read gets the value given.
C15_SetDefaultKeepsPresent ==
    \A e \in live, kw \in VarKws :
        LET S == Base_SetDefault(Cur, e, kw)
        IN  \A key \in VarKeys \ reserved_construction_var_names :
                IF Contains(Cur, e, key)
                THEN /\ GetItem(S, e, key).exc = "none"
                     /\ PyEq(GetItem(S, e, key).val, GetItem(Cur, e, key).val)
                ELSE key \in KwKeys(kw)
                     => /\ GetItem(S, e, key).exc = "none"
                        /\ PyEq(GetItem(S, e, key).val, KwValue(kw, key))

\* What each store write of a call can end in, for keyword arguments kw.
StoreWrites(e, kw) ==
    {Replace(Cur, e, kw), Base_Append(Cur, e, kw), Base_Prepend(Cur, e, kw)}
    \cup {Base_AppendUnique(Cur, e, d, kw) : d \in BOOLEAN}
    \cup {Base_PrependUnique(Cur, e, d, kw) : d \in BOOLEAN}

\* C19: creating a variable whose name is not an identifier fails with
\* IllegalVariableName and leaves the store as it was, by item assignment
\* and by Replace, Append, Prepend, AppendUnique and PrependUnique alike.
C19_NamesAreIdentifiers ==
    \A e \in live \cap BaseEnvs, v \in VarVals :
        \A S \in {SetItem(Cur, e, "A-B", v)} \cup StoreWrites(e, <<<<"A-B", v>>>>) :
            /\ S.exc = "IllegalVariable"
            /\ S.dict = dict

\* C20: item assignment of a reserved name returns without an error and
\* leaves the store of the environment, override layer included, as it
\* was; Replace, Append, Prepend, AppendUnique and PrependUnique given a
\* reserved name and X do what they do when given X alone.
C20_ReservedWriteIsNoOp ==
    \A e \in live, v \in VarVals :
        /\ LET S == SetItem(Cur, e, "TARGET", v)
           IN  S.exc = "none" /\ S.dict = dict /\ S.overrides = overrides
        /\ \A w \in VarVals :
            StoreWrites(e, <<<<"TARGET", v>>, <<"X", w>>>>)
                = StoreWrites(e, <<<<"X", w>>>>)

\* The overrides Override is given: nothing, reserved names only, and
\* mappings with a name that is not reserved.
OverrideKws ==
    VarKws \cup {<<>>, <<<<"TARGET", ListV(<<At("a")>>)>>, <<"X", ListV(<<At("b")>>)>>>>,
                 <<<<"TARGET", ListV(<<At("a")>>)>>, <<"SOURCE", ListV(<<At("b")>>)>>>>}

\* C27: Override returns the environment it was called on, and makes no
\* override layer, when its mapping is empty or holds reserved names only;
\* otherwise it returns the override environment over that environment,
\* whose layer holds the names that are not reserved.
C27_OverrideShortCircuit ==
    \A kw \in OverrideKws :
        LET R == Override(Cur, "E", kw)
        IN  IF KwKeys(kw) \subseteq reserved_construction_var_names
            THEN R.env = "E" /\ R.S = Cur
            ELSE /\ R.env = "O" /\ Subject(R.env) = "E"
                 /\ DOMAIN R.S.overrides
                      = KwKeys(kw) \ reserved_construction_var_names

\* Override made an override environment over E.
C27_Witness ==
    /\ "O" \in live
    /\ "X" \in DOMAIN overrides
    /\ Override(Cur, "E", <<<<"TARGET", ListV(<<At("a")>>)>>>>).env = "E"

\* The layers of E, of the override environment over E, and of an override
\* environment made over that one from a mapping that is not reserved.
LayersOf(self) == IF self = "O" THEN <<dict["E"], overrides>> ELSE <<dict[self]>>
NestedLayers ==
    {Append(LayersOf("O"), [k \in KwKeys(kw) |-> KwValue(kw, k)]) :
        kw \in {<<<<"X", StrV("n")>>>>, <<<<"M", StrV("n")>>>>}}
ReadLayers == {LayersOf("E"), LayersOf("O")} \cup NestedLayers
ReadKeys == {"X", "M", "TARGET", "Z"}

\* The layers holding a key, and the outermost of them.
Holders(L, key) == {i \in 1..Len(L) : key \in DOMAIN L[i]}
Outermost(L, key) == CHOOSE i \in Holders(L, key) : \A j \in Holders(L, key) : j <= i

\* C25: every read path of an environment gives, for each key, the value of
\* the outermost layer that holds the key, and reports the key absent when
\* no layer holds it: item lookup, get, membership, Dictionary with and
\* without a key, items, keys and values all agree.
C25_ReadPathsAgree ==
    \A L \in ReadLayers : \A key \in ReadKeys :
        IF Holders(L, key) = {}
        THEN /\ Env___getitem__(L, key).exc = "KeyError"
             /\ Env_get(L, key, StrV("dflt")) = StrV("dflt")
             /\ ~Env___contains__(L, key)
             /\ key \notin DOMAIN Env_Dictionary(L)
             /\ Env_DictionaryArg(L, key).exc = "KeyError"
             /\ key \notin Env_keys(L)
             /\ \A it \in Env_items(L) : it[1] # key
        ELSE LET v == L[Outermost(L, key)][key]
             IN  /\ Env___getitem__(L, key) = [exc |-> "none", val |-> v]
                 /\ Env_get(L, key, StrV("dflt")) = v
                 /\ Env___contains__(L, key)
                 /\ key \in DOMAIN Env_Dictionary(L) /\ Env_Dictionary(L)[key] = v
                 /\ Env_DictionaryArg(L, key) = [exc |-> "none", val |-> v]
                 /\ key \in Env_keys(L)
                 /\ \A it \in Env_items(L) : it[1] = key => it[2] = v
                 /\ v \in Env_values(L)
                 /\ (Len(L) <= 2 =>
                        GetItem(Cur, IF Len(L) = 2 THEN "O" ELSE "E", key).val = v)

\* The override layer and its subject hold the same key with different
\* values, and another key is held by the subject only.
C25_Witness ==
    /\ "O" \in live
    /\ "X" \in DOMAIN overrides /\ "X" \in DOMAIN dict["E"]
    /\ StoreOf(overrides)["X"] # StoreOf(dict["E"])["X"]
    /\ "TARGET" \in DOMAIN overrides

\* ------------------------------------------- construction with tools
SeedKws ==
    {<<>>, <<<<"X", ListV(<<At("a")>>)>>>>, <<<<"X", StrV("a")>>>>,
     <<<<"X", ListV(<<At("a")>>)>>, <<"TARGET", ListV(<<At("b")>>)>>>>,
     <<<<"CPPPATH", ListV(<<At("a")>>)>>>>}
ToolLists ==
    {<<>>} \cup {<<t>> : t \in ToolNames}
    \cup {<<"tool_observe", t>> : t \in ToolNames \ {"tool_observe"}}
ParsedFlags == {<<>>, <<<<"CPPPATH", ListV(<<At("p")>>)>>>>}
ToolVals == {ListV(<<At("a")>>), ListV(<<At("b")>>), StrV("a")}

InitTools ==
    \E kw \in SeedKws, tools \in ToolLists :
        /\ Constructed(Base___init__With(kw, tools, <<>>))
        /\ threads = NoThreads
        /\ held = {}

NextTools ==
    \/ Call_CloneWith(ToolLists, ParsedFlags, SeedKws)
    \/ Call___setitem__({"E", "C"}, {"X", "M"}, ToolVals)
    \/ Call___delitem__({"E"}, {"X"})

SpecTools == InitTools /\ [][NextTools]_vars

\* The seeded keys: the keyword arguments that are not reserved names.
SeededKeys(kw) == KwKeys(copy_non_reserved_keywords(kw))

\* What the claim says of one construction, S its result: it returned,
\* every seeded key the flags do not touch holds its seeded value, and a
\* tool that ran first and looked at X saw the seeded X.
SeedsWin(S, e, kw, tools, parse_flags) ==
    /\ S.exc = "none"
    /\ \A k \in SeededKeys(kw) \ KwKeys(parse_flags) :
          k \in DOMAIN S.dict[e] /\ Same(S.dict[e][k], KwValue(kw, k))
    /\ ("X" \in SeededKeys(kw) /\ tools # <<>> /\ Head(tools) = "tool_observe")
          => "M" \in DOMAIN S.dict[e] /\ Same(S.dict[e]["M"], KwValue(kw, "X"))

\* C22: construction and Clone apply the seeded variables, run the tools,
\* apply the seeded variables again and merge parse_flags last: a tool
\* sees the seeded values, and every seeded key that parse_flags does not
\* touch ends with its seeded value, whatever a tool assigned or appended
\* to it.
C22_SeededValuesWin ==
    \A kw \in SeedKws, tools \in ToolLists, parse_flags \in ParsedFlags :
        /\ SeedsWin(Base___init__With(kw, tools, parse_flags), "E",
                    kw, tools, parse_flags)
        /\ SeedsWin(Base_CloneWith(Cur, "E", "C", tools, parse_flags, kw), "C",
                    kw, tools, parse_flags)

\* --------------------------------------------------- parsing of flags
\* What a command does when it is run: it ends well and prints flags, or
\* it ends with a status that is not zero.
CommandEndsWell == [status |-> 0, out |-> "-lz -I/cmd"]
CommandFails == [status |-> 1, out |-> ""]
Runs == {CommandEndsWell, CommandFails}

Example == "-I/inc -DFOO=1 -lm -Wl,-rpath=/opt/lib"
\* The flags the program merges into E.
MergedFlags ==
    {<<Example>>, <<"-l m">>, <<"-D FOO">>, <<"-pthread">>, <<"!cmd">>,
     <<"-L/lib", "!cmd">>}

InitParse == InitWith({<<>>})

\* The overrides given with flags to parse.
FlagOverrides ==
    {<<<<"parse_flags", StrV("-I/o -lz")>>>>,
     <<<<"CPPPATH", ListV(<<At("/first")>>)>>, <<"parse_flags", StrV("-I/o -lz")>>>>,
     <<<<"parse_flags", StrV("-I/inc -lm")>>, <<"LIBS", ListV(<<At("y")>>)>>>>}

NextParse ==
    \/ Call_MergeFlagsArgs({"E"}, MergedFlags, Runs)
    \/ Call_Override(FlagOverrides)
    \/ Call___delitem__({"E"}, {"LIBS", "CPPDEFINES", "LIBPATH"})

SpecParse == InitParse /\ [][NextParse]_vars

\* Flag strings and the keys the table of flags sends their words to.
FlagTable ==
    {<<"", {}>>, <<"  ", {}>>,
     <<"x.a", {"LIBS"}>>, <<"-lm", {"LIBS"}>>, <<"-L/lib", {"LIBPATH"}>>,
     <<"-I/inc", {"CPPPATH"}>>, <<"-DFOO", {"CPPDEFINES"}>>,
     <<"-Wl,-rpath=/r", {"RPATH"}>>, <<"-Wl,-R,/r", {"RPATH"}>>,
     <<"-Wl,-R/r", {"RPATH"}>>, <<"-Wl,-s", {"LINKFLAGS"}>>,
     <<"-Wa,-x", {"ASFLAGS", "CCFLAGS"}>>, <<"-Wp,-x", {"CPPFLAGS"}>>,
     <<"-framework Cocoa", {"FRAMEWORKS"}>>, <<"-F/fw", {"FRAMEWORKPATH"}>>,
     <<"-std=c++11", {"CXXFLAGS"}>>, <<"-std=c99", {"CFLAGS"}>>,
     <<"-pthread", {"CCFLAGS", "LINKFLAGS"}>>,
     <<"-fsanitize=address", {"CCFLAGS", "LINKFLAGS"}>>,
     <<"-isysroot /sdk", {"CCFLAGS", "LINKFLAGS"}>>,
     <<"-isystem /sys", {"CCFLAGS"}>>, <<"-O2", {"CCFLAGS"}>>,
     <<"-O2 -lm x.a", {"CCFLAGS", "LIBS"}>>,
     <<Example, {"CPPPATH", "CPPDEFINES", "LIBS", "RPATH"}>>}

ThirteenKeys ==
    {"ASFLAGS", "CFLAGS", "CCFLAGS", "CXXFLAGS", "CPPDEFINES", "CPPFLAGS",
     "CPPPATH", "FRAMEWORKPATH", "FRAMEWORKS", "LIBPATH", "LIBS", "LINKFLAGS",
     "RPATH"}

\* C29: the mapping ParseFlags returns has exactly the thirteen keys
\* ASFLAGS, CFLAGS, CCFLAGS, CXXFLAGS, CPPDEFINES, CPPFLAGS, CPPPATH,
\* FRAMEWORKPATH, FRAMEWORKS, LIBPATH, LIBS, LINKFLAGS and RPATH whatever
\* the input; a key is empty unless a word of the input goes to it; and
\* '-I/inc -DFOO=1 -lm -Wl,-rpath=/opt/lib' gives CPPPATH ['/inc'],
\* CPPDEFINES [['FOO', '1']], LIBS ['m'], RPATH ['/opt/lib'] and every
\* other key empty.  What E holds after merging the example agrees.
C29_ParsedKeys ==
    /\ \A row \in FlagTable, run \in Runs :
          LET R == ParseFlags(<<row[1]>>, run)
          IN  /\ R.exc = "none"
              /\ DOMAIN R.mapping = ThirteenKeys
              /\ {k \in ThirteenKeys : R.mapping[k] # <<>>} = row[2]
    /\ \A flags \in MergedFlags :
          DOMAIN ParseFlags(flags, CommandEndsWell).mapping = ThirteenKeys
    /\ ParseFlags(<<Example>>, CommandEndsWell).mapping =
          [k \in ThirteenKeys |->
              CASE k = "CPPPATH" -> <<At("/inc")>>
                [] k = "CPPDEFINES" -> <<ListItem(<<"FOO", "1">>)>>
                [] k = "LIBS" -> <<At("m")>>
                [] k = "RPATH" -> <<At("/opt/lib")>>
                [] OTHER -> <<>>]
    /\ LET S == MergeFlagsArgs(Cur, "E", <<Example>>, CommandEndsWell, TRUE)
       IN  /\ S.exc = "none"
           /\ \E i \in 1..Len(S.dict["E"]["CPPDEFINES"].l) :
                 S.dict["E"]["CPPDEFINES"].l[i] = ListItem(<<"FOO", "1">>)
           /\ DOMAIN S.dict["E"] \ DOMAIN dict["E"]
                 \subseteq {"CPPPATH", "CPPDEFINES", "LIBS", "RPATH"}

\* E holds what the example's flags were parsed into.
C29_Witness ==
    /\ {"CPPPATH", "CPPDEFINES", "LIBS", "RPATH"} \subseteq DOMAIN dict["E"]
    /\ Same(dict["E"]["CPPPATH"], ListV(<<At("/inc")>>))
    /\ Same(dict["E"]["CPPDEFINES"], ListV(<<ListItem(<<"FOO", "1">>)>>))
    /\ Same(dict["E"]["RPATH"], ListV(<<At("/opt/lib")>>))
    /\ DOMAIN dict["E"] \cap {"CCFLAGS", "LINKFLAGS", "ASFLAGS"} = {}

\* The flags that take their argument in the same word or in the next,
\* with the key each goes to, and the arguments tried.
ArgFlags ==
    {<<"-l", "LIBS">>, <<"-L", "LIBPATH">>, <<"-I", "CPPPATH">>,
     <<"-D", "CPPDEFINES">>, <<"-F", "FRAMEWORKPATH">>}
ArgWords == {"m", "/inc", "FOO", "FOO=1", "A=b=c", "-x"}
\* A -D argument split at its first '='.
DefineOf(word) ==
    CASE word = "FOO=1" -> ListItem(<<"FOO", "1">>)
      [] word = "A=b=c" -> ListItem(<<"A", "b=c">>)
      [] OTHER -> At(word)

\* C30: for -l, -L, -I, -D and -F the flag followed by its argument as the
\* next word gives the same mapping as the flag and the argument in one
\* word: the argument in LIBS, LIBPATH, CPPPATH, CPPDEFINES or
\* FRAMEWORKPATH and nothing else; a -D argument is stored as
\* [name, value], split at its first '=', and as the bare name when it has
\* no '='.  Merging either form into E gives the same store.
C30_TwoWordsAsOne ==
    \A f \in ArgFlags, word \in ArgWords :
        LET two == ParseFlags(<<f[1] \o " " \o word>>, CommandEndsWell)
            one == ParseFlags(<<f[1] \o word>>, CommandEndsWell)
            item == IF f[1] = "-D" THEN DefineOf(word) ELSE At(word)
        IN  /\ two.exc = "none" /\ one.exc = "none"
            /\ two.mapping = one.mapping
            /\ one.mapping = [k \in ThirteenKeys |-> IF k = f[2] THEN <<item>> ELSE <<>>]
            /\ StoreOf(MergeFlagsArgs(Cur, "E", <<f[1] \o " " \o word>>,
                                      CommandEndsWell, TRUE).dict["E"])
                 = StoreOf(MergeFlagsArgs(Cur, "E", <<f[1] \o word>>,
                                          CommandEndsWell, TRUE).dict["E"])

\* E holds a library and a define that were given as '-l m' and '-D FOO'.
C30_Witness ==
    /\ {"LIBS", "CPPDEFINES"} \subseteq DOMAIN dict["E"]
    /\ \E i \in 1..Len(dict["E"]["LIBS"].l) : dict["E"]["LIBS"].l[i] = At("m")
    /\ \E i \in 1..Len(dict["E"]["CPPDEFINES"].l) :
          dict["E"]["CPPDEFINES"].l[i] = At("FOO")
    /\ "CPPPATH" \notin DOMAIN dict["E"]

\* ------------------------------------------- the words of a flag string
\* The flags the program merges into E: multi-word flags, -W wrappers and
\* flags whose argument is the next word or is missing.
WordFlags ==
    {<<"-include x.h -arch i386">>, <<"-Wl,-R,/r -Wa,-x">>, <<"-Wl,-s -Wp,-MD">>,
     <<"-l", "m">>, <<"-I -lz">>, <<"!cmd">>}

InitWords == InitWith({<<>>})

NextWords ==
    \/ Call_MergeFlagsArgs({"E"}, WordFlags, Runs)
    \/ Call___delitem__({"E"}, {"CCFLAGS", "LINKFLAGS", "LIBS", "RPATH"})

SpecWords == InitWords /\ [][NextWords]_vars

\* The eight flags of the claim, and the arguments tried after them.
EightFlags ==
    {"-include", "-imacros", "-isysroot", "-isystem", "-iquote", "-idirafter",
     "-arch", "--param"}
MultiWordArgs == {"x.h", "/sdk", "i386", "-x"}
AlsoLinkFlags == {"-isysroot", "-arch"}
FileFlags == {"-include", "-imacros"}

\* The mapping with the one tuple t under CCFLAGS, and under LINKFLAGS too
\* for the flags that go to both.
OnlyTuple(flag, t) ==
    [k \in ThirteenKeys |->
        IF k = "CCFLAGS" \/ (k = "LINKFLAGS" /\ flag \in AlsoLinkFlags)
        THEN <<t>> ELSE <<>>]

\* C31 as stated: each of -include, -imacros, -isysroot, -isystem,
\* -iquote, -idirafter, -arch and --param takes the next word as its
\* argument and adds the 2-tuple (flag, arg) of the flag and that word to
\* CCFLAGS, -isysroot and -arch to LINKFLAGS too, and nothing to any
\* other key.
C31_AsStated ==
    \A flag \in EightFlags, word \in MultiWordArgs :
        LET S == MergeFlagsArgs(Cur, "E", <<flag \o " " \o word>>, CommandEndsWell, TRUE)
        IN  /\ ParseFlags(<<flag \o " " \o word>>, CommandEndsWell).mapping
                  = OnlyTuple(flag, Tup(<<flag, word>>))
            /\ \E i \in 1..Len(S.dict["E"]["CCFLAGS"].l) :
                  S.dict["E"]["CCFLAGS"].l[i] = Tup(<<flag, word>>)

\* C31: each of the eight multi-word flags takes the next word as its
\* argument and adds one 2-tuple to CCFLAGS, -isysroot and -arch the same
\* tuple to LINKFLAGS too, and nothing to any other key; the tuple is
\* (flag, word), but for -include and -imacros it is (flag, File(word)),
\* the file node made from the word.  Merged into E, the tuple is a
\* member of E's CCFLAGS.
C31_MultiWordFlags ==
    \A flag \in EightFlags, word \in MultiWordArgs :
        LET arg == IF flag \in FileFlags THEN File(word).v[1] ELSE word
            R == ParseFlags(<<flag \o " " \o word>>, CommandEndsWell)
            S == MergeFlagsArgs(Cur, "E", <<flag \o " " \o word>>, CommandEndsWell, TRUE)
        IN  /\ R.exc = "none"
            /\ R.mapping = OnlyTuple(flag, Tup(<<flag, arg>>))
            /\ S.exc = "none"
            /\ \E i \in 1..Len(S.dict["E"]["CCFLAGS"].l) :
                  S.dict["E"]["CCFLAGS"].l[i] = Tup(<<flag, arg>>)
            /\ flag \in AlsoLinkFlags =>
                  \E i \in 1..Len(S.dict["E"]["LINKFLAGS"].l) :
                      S.dict["E"]["LINKFLAGS"].l[i] = Tup(<<flag, arg>>)

\* E holds the tuples of '-include x.h -arch i386': the file node under
\* CCFLAGS, the -arch tuple under CCFLAGS and LINKFLAGS.
C31_Witness ==
    /\ {"CCFLAGS", "LINKFLAGS"} \subseteq DOMAIN dict["E"]
    /\ \E i \in 1..Len(dict["E"]["CCFLAGS"].l) :
          dict["E"]["CCFLAGS"].l[i] = Tup(<<"-include", File("x.h").v[1]>>)
    /\ \E i \in 1..Len(dict["E"]["CCFLAGS"].l) :
          dict["E"]["CCFLAGS"].l[i] = Tup(<<"-arch", "i386">>)
    /\ \E i \in 1..Len(dict["E"]["LINKFLAGS"].l) :
          dict["E"]["LINKFLAGS"].l[i] = Tup(<<"-arch", "i386">>)
    /\ \A i \in 1..Len(dict["E"]["LINKFLAGS"].l) :
          dict["E"]["LINKFLAGS"].l[i] # Tup(<<"-include", File("x.h").v[1]>>)

\* What follows the prefix of a -W word, and the -Wl words that name no
\* run path.
WrappedArgs == {"/r", "/opt/lib", "-x", "a,b", "=x"}
OtherLinkerWords == {"-Wl,-s", "-Wl,-rpath,/r", "-Wl,--as-needed", "-Wl,-r", "-Wl,"}

\* The mapping that holds items under keys and nothing else.
Only(keys, items) ==
    [k \in ThirteenKeys |-> IF k \in keys THEN items[k] ELSE <<>>]

\* C32: a -W word is classified by its longest matching prefix:
\* '-Wl,-rpath=X', '-Wl,-R,X' and '-Wl,-RX' each add X, the whole prefix
\* stripped, to RPATH and to no other key; any other '-Wl,...' word goes
\* whole to LINKFLAGS; '-Wa,X' adds X to ASFLAGS and the whole word to
\* CCFLAGS; '-Wp,...' goes whole to CPPFLAGS.  Merged into E, a run path
\* is a member of E's RPATH.
C32_WrapperPrefixes ==
    LET parsed(word) == ParseFlags(<<word>>, CommandEndsWell).mapping
    IN  /\ \A X \in WrappedArgs :
              /\ parsed("-Wl,-rpath=" \o X) = Only({"RPATH"}, [RPATH |-> <<At(X)>>])
              /\ parsed("-Wl,-R," \o X) = Only({"RPATH"}, [RPATH |-> <<At(X)>>])
              /\ parsed("-Wl,-R" \o X) = Only({"RPATH"}, [RPATH |-> <<At(X)>>])
              /\ parsed("-Wa," \o X) =
                    Only({"ASFLAGS", "CCFLAGS"},
                         [ASFLAGS |-> <<At(X)>>, CCFLAGS |-> <<At("-Wa," \o X)>>])
              /\ parsed("-Wp," \o X) =
                    Only({"CPPFLAGS"}, [CPPFLAGS |-> <<At("-Wp," \o X)>>])
              /\ LET S == MergeFlagsArgs(Cur, "E", <<"-Wl,-R," \o X>>, CommandEndsWell, TRUE)
                 IN  /\ S.exc = "none"
                     /\ \E i \in 1..Len(S.dict["E"]["RPATH"].l) :
                           S.dict["E"]["RPATH"].l[i] = At(X)
                     /\ DOMAIN S.dict["E"] \ DOMAIN dict["E"] \subseteq {"RPATH"}
        /\ \A word \in OtherLinkerWords :
              parsed(word) = Only({"LINKFLAGS"}, [LINKFLAGS |-> <<At(word)>>])

\* E holds the run path of '-Wl,-R,/r' without its prefix and without the
\* comma, the suffix of '-Wa,-x' under ASFLAGS and the whole word under
\* CCFLAGS, and '-Wl,-s' whole under LINKFLAGS.
C32_Witness ==
    /\ {"RPATH", "ASFLAGS", "CCFLAGS", "LINKFLAGS"} \subseteq DOMAIN dict["E"]
    /\ Same(dict["E"]["RPATH"], ListV(<<At("/r")>>))
    /\ Same(dict["E"]["ASFLAGS"], ListV(<<At("-x")>>))
    /\ \E i \in 1..Len(dict["E"]["CCFLAGS"].l) : dict["E"]["CCFLAGS"].l[i] = At("-Wa,-x")
    /\ \E i \in 1..Len(dict["E"]["LINKFLAGS"].l) : dict["E"]["LINKFLAGS"].l[i] = At("-Wl,-s")

\* The flags that wait for the next word with the key it goes to, and
\* the words tried after them: a plain word, a word that is a flag, and a
\* word that is a flag with its argument.
KeyedFlags ==
    {<<"-l", "LIBS">>, <<"-L", "LIBPATH">>, <<"-I", "CPPPATH">>,
     <<"-D", "CPPDEFINES">>, <<"-F", "FRAMEWORKPATH">>,
     <<"-framework", "FRAMEWORKS">>}
AwaitingFlags == {f[1] : f \in KeyedFlags} \cup {"-dylib_file"} \cup EightFlags
NextWordsTried == {"m", "-x", "-lz"}

\* The mapping of the flag with word as its argument.
WithArgument(flag, word) ==
    IF flag \in EightFlags
    THEN OnlyTuple(flag, Tup(<<flag, IF flag \in FileFlags THEN File(word).v[1] ELSE word>>))
    ELSE IF flag = "-dylib_file"
    THEN Only({"LINKFLAGS"}, [LINKFLAGS |-> <<At(flag), At(word)>>])
    ELSE LET f == CHOOSE g \in KeyedFlags : g[1] = flag
         IN  [k \in ThirteenKeys |-> IF k = f[2] THEN <<At(word)>> ELSE <<>>]

\* The mapping of the flag without an argument.
WithoutArgument(flag) ==
    IF flag = "-dylib_file"
    THEN Only({"LINKFLAGS"}, [LINKFLAGS |-> <<At(flag)>>])
    ELSE [k \in ThirteenKeys |-> <<>>]

\* What two mappings hold, one after the other.
BothMappings(m1, m2) == [k \in ThirteenKeys |-> m1[k] \o m2[k]]

\* C38: a flag that waits for its argument (-l, -L, -I, -D, -F,
\* -framework, -dylib_file and the eight multi-word flags) takes exactly
\* the next word of its flag string as the argument, a word that starts
\* with '-' too, and the word after that is classified on its own; as the
\* last word of its string the flag gets no argument, and the first word of
\* the next string of the same call is classified on its own.  Merged
\* into E, the next string's -lz puts z into LIBS.
C38_ArgumentWithinString ==
    LET parsed(flags) == ParseFlags(flags, CommandEndsWell).mapping
    IN  \A flag \in AwaitingFlags, word \in NextWordsTried :
            /\ parsed(<<flag \o " " \o word>>) = WithArgument(flag, word)
            /\ \A after \in NextWordsTried :
                  parsed(<<flag \o " " \o word \o " " \o after>>)
                     = BothMappings(WithArgument(flag, word), parsed(<<after>>))
            /\ parsed(<<flag>>) = WithoutArgument(flag)
            /\ parsed(<<flag, word>>)
                  = BothMappings(WithoutArgument(flag), parsed(<<word>>))
            /\ parsed(<<"-Wp,-MD " \o flag, word>>)
                  = BothMappings(parsed(<<"-Wp,-MD">>),
                                 BothMappings(WithoutArgument(flag), parsed(<<word>>)))
            /\ LET S == MergeFlagsArgs(Cur, "E", <<flag, "-lz">>, CommandEndsWell, TRUE)
               IN  /\ S.exc = "none"
                   /\ \E i \in 1..Len(S.dict["E"]["LIBS"].l) :
                         S.dict["E"]["LIBS"].l[i] = At("z")

\* E holds what '-l', 'm' and '-I -lz' gave: the file m as a library
\* and not the library m, the word -lz as an include directory and no
\* library z.
C38_Witness ==
    /\ {"LIBS", "CPPPATH"} \subseteq DOMAIN dict["E"]
    /\ \E i \in 1..Len(dict["E"]["LIBS"].l) : dict["E"]["LIBS"].l[i] = File("m")
    /\ \A i \in 1..Len(dict["E"]["LIBS"].l) :
          dict["E"]["LIBS"].l[i] \notin {At("m"), At("z")}
    /\ \E i \in 1..Len(dict["E"]["CPPPATH"].l) : dict["E"]["CPPPATH"].l[i] = At("-lz")

\* The flags whose command fails, alone and after a flag.
FailingFlags == {<<"!cmd">>, <<"-L/lib", "!cmd">>, <<"-I/inc -lm", "!cmd">>}

\* C23: when the command of a '!command' flag ends with a status that is
\* not zero, MergeFlags raises the error of the run, the command was run
\* once, and no variable of any environment has changed, the flags before
\* the command in the same call included.
C23_FailedCommandChangesNothing ==
    \A self \in live, flags \in FailingFlags, unique \in BOOLEAN :
        LET S == MergeFlagsArgs(Cur, self, flags, CommandFails, unique)
            R == ParseFlags(flags, CommandFails)
        IN  /\ S.exc = "OSError"
            /\ R.exc = "OSError" /\ R.runs = 1
            /\ S.dict = dict /\ S.overrides = overrides

\* E holds the flags that ran well, and the flag before a failing command
\* would have been new to it.
C23_Witness ==
    /\ "LIBS" \in DOMAIN dict["E"]
    /\ "LIBPATH" \notin DOMAIN dict["E"]
    /\ "LIBPATH" \in DOMAIN MergeFlagsArgs(Cur, "E", <<"-L/lib">>, CommandFails, TRUE).dict["E"]
    /\ MergeFlagsArgs(Cur, "E", <<"-L/lib", "!cmd">>, CommandFails, TRUE).exc = "OSError"

\* The words '-I' and '-l' put into CPPPATH and LIBS by the flags of an
\* override.
FlagsOf(kw) ==
    IF KwValue(kw, "parse_flags").a = "-I/o -lz"
    THEN [CPPPATH |-> <<At("/o")>>, LIBS |-> <<At("z")>>]
    ELSE [CPPPATH |-> <<At("/inc")>>, LIBS |-> <<At("m")>>]

\* C26: Override with parse_flags among its overrides returns the
\* override environment over E; parse_flags is no variable of it or of E;
\* the subject's store is as it was; and the flags are merged into the
\* override layer on top of what the environment shows once the other
\* overrides are in place: the override's value of the key when it has
\* one, the subject's otherwise.
C26_OverrideMergesFlags ==
    \A kw \in FlagOverrides :
        LET R == Override(Cur, "E", kw)
            given == KwWithout(kw, "parse_flags")
            shown(k) == IF k \in KwKeys(given) THEN Members(KwValue(given, k))
                        ELSE IF k \in DOMAIN dict["E"] THEN Members(dict["E"][k])
                        ELSE <<>>
        IN  /\ R.S.exc = "none" /\ R.env = "O"
            /\ "parse_flags" \notin DOMAIN R.S.overrides
            /\ "parse_flags" \notin DOMAIN R.S.dict["E"]
            /\ R.S.dict = dict
            /\ DOMAIN R.S.overrides = KwKeys(given) \cup {"CPPPATH", "LIBS"}
            /\ Same(R.S.overrides["CPPPATH"],
                    ListV(KeepLeftmost(shown("CPPPATH") \o FlagsOf(kw).CPPPATH, <<>>)))
            /\ Same(R.S.overrides["LIBS"],
                    ListV(KeepRightmost(shown("LIBS") \o FlagsOf(kw).LIBS, <<>>)))

\* An override environment was made with flags: its layer holds, for
\* CPPPATH, the override's own value and then the flag's, and E holds a
\* CPPPATH of its own that is not in the layer.
C26_Witness ==
    /\ "O" \in live
    /\ "parse_flags" \notin DOMAIN overrides
    /\ "CPPPATH" \in DOMAIN overrides
    /\ Same(overrides["CPPPATH"], ListV(<<At("/first"), At("/o")>>))
    /\ "CPPPATH" \in DOMAIN dict["E"]
    /\ Same(dict["E"]["CPPPATH"], ListV(<<At("/inc")>>))

\* ----------------------------------------------- added methods and Clone
AddedFunctions == {"f", "g"}
AddedNames == {"", "m"}
\* What the program assigns to an attribute in place of an added method.
PlainAttr == [cls |-> "function", object |-> "", method |-> "h", name |-> "", id |-> 0]

InitMethods == InitWith({<<>>})

NextMethods ==
    \/ Call_AddMethod({"E"}, AddedFunctions, AddedNames)
    \/ Call_RemoveMethod({"E"}, AddedFunctions)
    \/ Call_setattr({"E"}, {"f", "m"}, {PlainAttr})
    \/ Call_Clone({<<>>})

SpecMethods == InitMethods /\ [][NextMethods]_vars

\* The attribute of e named as the wrapper mw still is mw.
StillBound(e, mw) == mw.name \in DOMAIN attrs[e] /\ attrs[e][mw.name] = mw

\* C28: Clone binds to the clone exactly the added methods of the original
\* whose attribute still is the added wrapper, in their order: a method
\* whose attribute was assigned something else, or that RemoveMethod took
\* off the list, is not in the clone's added methods, and the clone's
\* attribute of that name stays what the original's was.
C28_CloneRebindsBoundMethods ==
    LET \* the original alone, before Clone makes the new environment
        S0 == [Cur EXCEPT !.attrs["C"] = EmptyMap, !.added_methods["C"] = <<>>]
        R == Base_Clone(S0, "E", "C", <<>>)
        still(mw) == StillBound("E", mw)
        kept == SelectSeq(added_methods["E"], still)
        got == R.added_methods["C"]
    IN  /\ R.exc = "none"
        /\ Len(got) = Len(kept)
        /\ \A i \in 1..Len(got) :
              /\ got[i].object = "C"
              /\ got[i].method = kept[i].method /\ got[i].name = kept[i].name
              /\ got[i].id \notin WrapperIds(S0)
              /\ R.attrs["C"][got[i].name] = got[i]
        /\ \A n \in DOMAIN attrs["E"] :
              (\A i \in 1..Len(kept) : kept[i].name # n)
                 => R.attrs["C"][n] = attrs["E"][n]

\* E was cloned while it had one added method still bound, one whose
\* attribute was assigned over, and an attribute left by a removed method.
C28_Witness ==
    /\ "C" \in live
    /\ Len(added_methods["E"]) = 2 /\ Len(added_methods["C"]) = 1
    /\ \E i \in 1..2 : ~StillBound("E", added_methods["E"][i])
    /\ \E n \in DOMAIN attrs["C"] :
          /\ attrs["C"][n].cls = "MethodWrapper" /\ attrs["C"][n].object = "E"

\* --------------------------------------- an environment and its clone

\* X is a list-valued variable, M a mapping-valued one.
CloneKeys == {"X"}
CloneVals == {ListV(<<At("a")>>), ListV(<<At("b")>>)}
CloneKws == {<<<<k, v>>>> : k \in CloneKeys, v \in CloneVals}
MappingKeys == {"M"}
MappingVal == DictV(<<<<"a", "b">>>>)

InitClone ==
    InitWith({<<<<"M", MappingVal>>>>,
              <<<<"X", ListV(<<At("a")>>)>>, <<"M", MappingVal>>>>})

NextClone ==
    \/ Call_Clone({<<>>, <<<<"X", ListV(<<At("b")>>)>>>>})
    \/ Call___setitem__(BaseEnvs, CloneKeys, CloneVals)
    \/ Call_Replace(BaseEnvs, CloneKws)
    \/ Call_Append(BaseEnvs, CloneKws)
    \/ Call_Prepend(BaseEnvs, CloneKws)
    \/ Call_AppendUnique(BaseEnvs, CloneKws)
    \/ Call_PrependUnique(BaseEnvs, CloneKws)
    \/ Call_list_append(BaseEnvs, CloneKeys, {"b"})
    \/ Call_mapping_setitem(BaseEnvs, MappingKeys, {<<"b", "a">>})

SpecClone == InitClone /\ [][NextClone]_vars

\* What a mutation of a variable of environment e can end in: the states
\* after Append, Prepend, AppendUnique, PrependUnique, Replace, item
\* assignment and the in-place mutations of a list or a mapping.
Mutations(e) ==
    {Base_Append(Cur, e, kw) : kw \in CloneKws}
    \cup {Base_Prepend(Cur, e, kw) : kw \in CloneKws}
    \cup {Base_AppendUnique(Cur, e, d, kw) : kw \in CloneKws, d \in BOOLEAN}
    \cup {Base_PrependUnique(Cur, e, d, kw) : kw \in CloneKws, d \in BOOLEAN}
    \cup {Base_Replace(Cur, e, kw) : kw \in CloneKws}
    \cup {SetItem(Cur, e, k, v) : k \in CloneKeys, v \in CloneVals}
    \cup {list_append(Cur, e, k, "b") : k \in CloneKeys}
    \cup {mapping_setitem(Cur, e, k, "b", "a") : k \in MappingKeys}

\* C9: once E is cloned, a mutation of a variable on the clone leaves every
\* variable of the original as it was, and a mutation on the original
\* leaves every variable of the clone as it was.
C9_CloneIndependence ==
    "C" \in live =>
        /\ \A S \in Mutations("C") : StoreOf(S.dict["E"]) = StoreOf(dict["E"])
        /\ \A S \in Mutations("E") : StoreOf(S.dict["C"]) = StoreOf(dict["C"])

\* The clone and the original hold different values of X and of M: the
\* clone's list and the original's mapping have grown since the Clone.
C9_Witness ==
    /\ "C" \in live
    /\ "X" \in DOMAIN dict["C"] /\ "X" \in DOMAIN dict["E"]
    /\ Len(dict["C"]["X"].l) > Len(dict["E"]["X"].l)
    /\ Len(dict["C"]["M"].m) < Len(dict["E"]["M"].m)

\* ------------------------------------------------ the builder registry

\* B1 is registered with the builders b1 and b2, B2 with nb, which is not a
\* builder.
BuilderNames == {"B1", "B2"}
BuilderItems == {<<"B1", "b1">>, <<"B1", "b2">>, <<"B2", "nb">>}
BuilderMaps == {<<<<"B1", "b2">>>>, <<<<"B2", "nb">>>>}
BuildersKws == {<<<<"BUILDERS", DictV(m)>>>> : m \in BuilderMaps}

InitBuilders == InitWith({<<>>, <<<<"BUILDERS", DictV(<<<<"B1", "b1">>>>)>>>>})

NextBuilders ==
    \/ Call___setitem__(BaseEnvs, {"BUILDERS"}, {DictV(m) : m \in BuilderMaps})
    \/ Call___delitem__(BaseEnvs, {"BUILDERS"})
    \/ Call_Replace(BaseEnvs, BuildersKws)
    \/ Call_Append(BaseEnvs, BuildersKws)
    \/ Call_Prepend(BaseEnvs, BuildersKws)
    \/ Call_mapping_setitem(BaseEnvs, {"BUILDERS"}, BuilderItems)
    \/ Call_mapping_delitem(BaseEnvs, {"BUILDERS"}, BuilderNames)
    \/ Call_mapping_update(BaseEnvs, {"BUILDERS"}, BuilderMaps)
    \/ Call_Clone({<<>>})

SpecBuilders == InitBuilders /\ [][NextBuilders]_vars

\* The name-to-builder pairs of the registry of a store, and the names of
\* the builder-wrapper attributes among a set of attributes.
Registry(d) == IF "BUILDERS" \in DOMAIN d THEN d["BUILDERS"].m ELSE <<>>
WrapperNames(at) == {n \in DOMAIN at : at[n].cls = "BuilderWrapper"}

\* The registry state of S and the attributes match for environment e.
RegistryMatches(S, e) ==
    /\ MKeys(Registry(S.dict[e])) = WrapperNames(S.attrs[e])
    /\ \A n \in WrapperNames(S.attrs[e]) :
        /\ S.attrs[e][n].method = MGet(Registry(S.dict[e]), n)
        /\ S.attrs[e][n].object = e

\* The names deleted from a registry and the variables deleted from a
\* store.
DeletedNames == BuilderNames \cup {"B3"}
DeletedKeys == {"X", "SCANNERS", "PLATFORM", "BUILDERS"}

\* C34: del env['BUILDERS'][name] for a name the registry holds removes
\* the name from the registry and the attribute of that name from the
\* environment, and leaves the other names and attributes; for a name it
\* does not hold it raises KeyError and changes no store and no
\* attribute.  del env[key] raises KeyError and changes nothing when the
\* store does not hold key, removes key otherwise, and for SCANNERS also
\* drops the memoized scanner map.
C34_DeleteUnbinds ==
    \A e \in live \cap BaseEnvs :
        /\ ("BUILDERS" \in DOMAIN dict[e] /\ dict[e]["BUILDERS"].t = "bdict") =>
              \A name \in DeletedNames :
                  LET S == mapping_delitem(Cur, e, "BUILDERS", name)
                  IN  IF name \in MKeys(Registry(dict[e]))
                      THEN /\ S.exc = "none"
                           /\ Registry(S.dict[e]) = MDel(Registry(dict[e]), name)
                           /\ DOMAIN S.attrs[e] = DOMAIN attrs[e] \ {name}
                           /\ \A n \in DOMAIN S.attrs[e] : S.attrs[e][n] = attrs[e][n]
                      ELSE /\ S.exc = "KeyError"
                           /\ S.dict = dict /\ S.attrs = attrs
        /\ \A key \in DeletedKeys :
              LET S0 == get_scanner(Cur, e, ".c").S
                  S == DelItem(S0, e, key)
              IN  IF key \notin DOMAIN dict[e]
                  THEN /\ DelItem(Cur, e, key).exc = "KeyError"
                       /\ DelItem(Cur, e, key).dict = dict
                       /\ DelItem(Cur, e, key).attrs = attrs
                       /\ DelItem(Cur, e, key).memo = memo
                  ELSE /\ DelItem(Cur, e, key).exc = "none"
                       /\ DOMAIN DelItem(Cur, e, key).dict[e] = DOMAIN dict[e] \ {key}
                       /\ (key = "SCANNERS" /\ S0.exc = "none") =>
                              /\ S0.memo[e].valid
                              /\ ~S.memo[e].valid

\* E's registry holds B1 and E has the attribute B1, so that the delete
\* has a name to remove and a name (B3) that is absent.
C34_Witness ==
    /\ "BUILDERS" \in DOMAIN dict["E"] /\ dict["E"]["BUILDERS"].t = "bdict"
    /\ "B1" \in MKeys(Registry(dict["E"]))
    /\ "B1" \in WrapperNames(attrs["E"])
    /\ "B1" \notin DOMAIN mapping_delitem(Cur, "E", "BUILDERS", "B1").attrs["E"]
    /\ mapping_delitem(Cur, "E", "BUILDERS", "B3").exc = "KeyError"
    /\ "C" \in live /\ "X" \notin DOMAIN dict["C"]

\* The values given to a builder attribute, and the positional arguments
\* of a call: one, two or three of them.
CallVals == {NoneV, StrV("a"), ListV(<<At("a")>>), ListV(<<>>), ObjV("n1")}
CallArgs ==
    {<<v>> : v \in CallVals} \cup {<<v, w>> : v \in CallVals, w \in CallVals}
    \cup {<<v, w, StrV("x")>> : v \in CallVals, w \in CallVals}

\* A target or source as the builder gets it: None, a list as it is, any
\* other value as the list of that one value.
AsSequence(v) == IF v.t = "none" \/ is_List(v) THEN v ELSE ListV(<<ItemOf(v)>>)

\* The call the claim describes, of the attribute name of environment e.
NormalizedCall(S, e, name, args) ==
    [builder |-> S.attrs[e][name].method,
     env |-> e,
     target |-> IF Len(args) = 1 THEN NoneV ELSE AsSequence(args[1]),
     source |-> IF Len(args) = 1 THEN AsSequence(args[1]) ELSE AsSequence(args[2]),
     rest |-> IF Len(args) > 2 THEN SubSeq(args, 3, Len(args)) ELSE <<>>]

\* C33: a builder attribute called on an environment calls the builder
\* with (environment, target, source, *rest), the environment being the
\* one it was called on: a lone positional argument is the source and the
\* target is None, otherwise the first two are target and source, and a
\* target or source that is not None and not a sequence becomes the
\* sequence of that one value.
C33_CallNormalizes ==
    \A e \in live \cap BaseEnvs : \A name \in WrapperNames(attrs[e]) :
        \A args \in CallArgs :
            BuilderWrapper___call__(attrs[e][name], args) = NormalizedCall(Cur, e, name, args)

\* The arguments are normalized in every state; the environment the
\* builder gets is the one the attribute is bound to.
CallNormalizesBound ==
    \A e \in live \cap BaseEnvs : \A name \in WrapperNames(attrs[e]) :
        \A args \in CallArgs :
            BuilderWrapper___call__(attrs[e][name], args)
                = [NormalizedCall(Cur, e, name, args) EXCEPT !.env = attrs[e][name].object]

\* C5: after every sequence of builder mutations the names of env's
\* registry are the names of env's builder-wrapper attributes, and each
\* attribute wraps the builder stored under its name and is bound to env.
C5_RegistryMatchesAttributes ==
    \A e \in live \cap BaseEnvs : RegistryMatches(Cur, e)

\* C6: when env['BUILDERS'] = mapping or Replace(BUILDERS=mapping) fails
\* with NotABuilder, the registry and the builder attributes are as they
\* were before the call.
C6_NotABuilderChangesNothing ==
    \A e \in live \cap BaseEnvs, m \in BuilderMaps :
        \A S \in {SetItem(Cur, e, "BUILDERS", DictV(m)),
                  Replace(Cur, e, <<<<"BUILDERS", DictV(m)>>>>)} :
            S.exc = "NotABuilder"
            => Registry(S.dict[e]) = Registry(dict[e]) /\ S.attrs[e] = attrs[e]

\* C7: after any sequence of operations every value held in a registry
\* satisfies the builder contract.
C7_RegistryHoldsBuilders ==
    \A e \in live \cap BaseEnvs :
        \A i \in 1..Len(Registry(dict[e])) : is_a_Builder(Registry(dict[e])[i][2])

\* What adding, replacing or deleting a builder on environment e can end
\* in.
BuilderMutations(e) ==
    {mapping_setitem(Cur, e, "BUILDERS", i[1], i[2]) : i \in BuilderItems}
    \cup {mapping_delitem(Cur, e, "BUILDERS", n) : n \in BuilderNames}
    \cup {mapping_update(Cur, e, "BUILDERS", m) : m \in BuilderMaps}
    \cup {SetItem(Cur, e, "BUILDERS", DictV(m)) : m \in BuilderMaps}
    \cup {Replace(Cur, e, kw) : kw \in BuildersKws}
    \cup {Base_Append(Cur, e, kw) : kw \in BuildersKws}

\* C10: immediately after Clone the clone's registry holds the pairs of the
\* original's, every builder attribute of the clone wraps the builder stored
\* under its name and is bound to the clone, and afterwards a builder
\* mutation on one of the two changes neither the registry nor the
\* attributes of the other.
C10_CloneOwnsRegistry ==
    IF "C" \notin live
    THEN LET S == Base_Clone(Cur, "E", "C", <<>>)
         IN  S.exc = "none"
             => /\ Registry(S.dict["C"]) = Registry(dict["E"])
                /\ RegistryMatches(S, "C")
                /\ Registry(S.dict["E"]) = Registry(dict["E"])
                /\ S.attrs["E"] = attrs["E"]
    ELSE /\ \A S \in BuilderMutations("C") :
                Registry(S.dict["E"]) = Registry(dict["E"]) /\ S.attrs["E"] = attrs["E"]
         /\ \A S \in BuilderMutations("E") :
                Registry(S.dict["C"]) = Registry(dict["C"]) /\ S.attrs["C"] = attrs["C"]

\* --------------------------------------- merging values of every shape

\* X is an ordinary variable, CPPDEFINES the one with its own merging
\* rules; a value is an empty or a non-empty string, a number, a sequence
\* or a mapping.
MergeKeys == {"X", "CPPDEFINES"}
MergeVals ==
    {StrV(""), StrV("a"), IntV("1"), ListV(<<At("a"), At("b")>>),
     DictV(<<<<"a", "None">>, <<"b", "1">>>>)}
MergeKws == {<<<<"X", ListV(<<At("b")>>)>>>>, <<<<"CPPDEFINES", StrV("a")>>>>}

InitMerge == InitWith({<<>>})

NextMerge ==
    \/ Call___setitem__({"E"}, MergeKeys, MergeVals)
    \/ Call___delitem__({"E"}, MergeKeys)
    \/ Call_Append({"E"}, MergeKws)
    \/ Call_Prepend({"E"}, MergeKws)
    \/ Call_AppendUnique({"E"}, MergeKws)
    \/ Call_PrependUnique({"E"}, MergeKws)

SpecMerge == InitMerge /\ [][NextMerge]_vars

\* As Members, but a string is an element even when it is empty.
MembersOfDefine(v) == IF is_String(v) THEN <<ItemOf(v)>> ELSE Members(v)

\* The incoming values of Append and Prepend: sequences and scalars.
SeqOrScalar ==
    {ListV(<<>>), ListV(<<At("b")>>), ListV(<<At("b"), At("a")>>),
     StrV(""), StrV("c"), IntV("0"), IntV("1"), NoneV}
\* The case of the combination: neither side a mapping, one a sequence.
OneIsSequence(E, I) == ~is_Dict(E) /\ ~is_Dict(I) /\ (is_List(E) \/ is_List(I))

\* The combination rule as stated for every key: an absent key takes the
\* incoming value as it is; Append stores the existing side's members and
\* then the incoming side's, Prepend the other way round.
C21_AsStated ==
    \A key \in MergeKeys, I \in SeqOrScalar :
        LET A == Base_Append(Cur, "E", <<<<key, I>>>>)
            P == Base_Prepend(Cur, "E", <<<<key, I>>>>)
        IN  IF key \notin DOMAIN dict["E"]
            THEN /\ A.exc = "none" /\ Same(A.dict["E"][key], I)
                 /\ P.exc = "none" /\ Same(P.dict["E"][key], I)
            ELSE LET E == dict["E"][key]
                 IN  OneIsSequence(E, I) =>
                        /\ A.exc = "none"
                        /\ Same(A.dict["E"][key], ListV(Members(E) \o Members(I)))
                        /\ P.exc = "none"
                        /\ Same(P.dict["E"][key], ListV(Members(I) \o Members(E)))

\* C21: when one of the existing value E and the incoming value I of a key
\* is a sequence and neither is a mapping, Append stores E's members
\* followed by I's and Prepend stores I's followed by E's, a scalar that
\* is not empty counting as one member and an empty one as none; an absent
\* key takes the incoming value as it is.  Append of CPPDEFINES differs in
\* how it takes a string: an existing string counts as one member even
\* when it is empty, and a string given for an absent CPPDEFINES is stored
\* as a one-element sequence.  Prepend(X=[a]) and then Append(X=[b]) on a
\* store without X gives X = [a, b].
C21_AppendPrependOrder ==
    /\ \A key \in MergeKeys, I \in SeqOrScalar :
        LET A == Base_Append(Cur, "E", <<<<key, I>>>>)
            P == Base_Prepend(Cur, "E", <<<<key, I>>>>)
        IN  IF key \notin DOMAIN dict["E"]
            THEN /\ A.exc = "none"
                 /\ IF key = "CPPDEFINES" /\ is_String(I)
                    THEN Same(A.dict["E"][key], ListV(<<ItemOf(I)>>))
                    ELSE Same(A.dict["E"][key], I)
                 /\ P.exc = "none" /\ Same(P.dict["E"][key], I)
            ELSE LET E == dict["E"][key]
                     ME == IF key = "CPPDEFINES" THEN MembersOfDefine(E) ELSE Members(E)
                 IN  OneIsSequence(E, I) =>
                        /\ A.exc = "none"
                        /\ Same(A.dict["E"][key], ListV(ME \o Members(I)))
                        /\ P.exc = "none"
                        /\ Same(P.dict["E"][key], ListV(Members(I) \o Members(E)))
    /\ "X" \notin DOMAIN dict["E"] =>
          LET P == Base_Prepend(Cur, "E", <<<<"X", ListV(<<At("a")>>)>>>>)
              A == Base_Append(P, "E", <<<<"X", ListV(<<At("b")>>)>>>>)
          IN  A.exc = "none" /\ Same(A.dict["E"]["X"], ListV(<<At("a"), At("b")>>))

\* Append stored an absent CPPDEFINES given as a string, and a list was
\* appended to a variable that held a list.
C21_Witness ==
    /\ "CPPDEFINES" \in DOMAIN dict["E"]
    /\ Same(dict["E"]["CPPDEFINES"], ListV(<<At("a")>>))
    /\ "X" \in DOMAIN dict["E"]
    /\ Same(dict["E"]["X"], ListV(<<At("a"), At("b"), At("b")>>))

\* The elements of a CPPDEFINES list as tuples: a bare name is (name,).
AsTuples(l) == [i \in 1..Len(l) |-> IF l[i].k = "atom" THEN Tup(l[i].v) ELSE l[i]]

IsPrefix(p, l) == Len(p) <= Len(l) /\ SubSeq(l, 1, Len(p)) = p

\* C11: AppendUnique with delete_existing=False never reorders an element
\* already present: the elements of a list-valued variable are, in their
\* order, the first elements of the list stored by the call (for
\* CPPDEFINES, whose elements the call turns into tuples, as tuples).
C11_KeepsExistingOrder ==
    \A key \in MergeKeys :
        (key \in DOMAIN dict["E"] /\ is_List(dict["E"][key])) =>
            \A v \in {StrV("a"), ListV(<<At("a")>>), ListV(<<At("b"), At("c")>>)} :
                LET S == Base_AppendUnique(Cur, "E", FALSE, <<<<key, v>>>>)
                IN  S.exc = "none" =>
                        /\ is_List(S.dict["E"][key])
                        /\ IF key = "CPPDEFINES"
                           THEN IsPrefix(AsTuples(dict["E"][key].l),
                                         AsTuples(S.dict["E"][key].l))
                           ELSE IsPrefix(dict["E"][key].l, S.dict["E"][key].l)

\* The (name,) and (name, value) tuples of a mapping, in its order.
Exploded(m) ==
    [i \in 1..Len(m) |-> IF m[i][2] = "None" THEN Tup(<<m[i][1]>>)
                         ELSE Tup(<<m[i][1], m[i][2]>>)]

\* C13: when CPPDEFINES holds a mapping, Append of a sequence stores the
\* list of the mapping's tuples followed by the sequence's, and Prepend
\* stores the sequence's followed by the mapping's; the stored value is a
\* list, never a mapping.
C13_DefinesBecomePairs ==
    ("CPPDEFINES" \in DOMAIN dict["E"] /\ dict["E"]["CPPDEFINES"].t = "dict") =>
        \A l \in {<<At("c")>>, <<Tup(<<"c">>), Tup(<<"d", "1">>)>>} :
            LET m == dict["E"]["CPPDEFINES"].m
                A == Base_Append(Cur, "E", <<<<"CPPDEFINES", ListV(l)>>>>)
                P == Base_Prepend(Cur, "E", <<<<"CPPDEFINES", ListV(l)>>>>)
            IN  /\ A.exc = "none" /\ is_List(A.dict["E"]["CPPDEFINES"])
                /\ A.dict["E"]["CPPDEFINES"].l = Exploded(m) \o AsTuples(l)
                /\ P.exc = "none" /\ is_List(P.dict["E"]["CPPDEFINES"])
                /\ P.dict["E"]["CPPDEFINES"].l = AsTuples(l) \o Exploded(m)

\* C14: whatever a variable holds (or when it is not set), Append, Prepend,
\* AppendUnique and PrependUnique of an empty or non-empty string, a
\* number, a sequence or a mapping return without raising and leave the
\* variable set; a string and a number, which '+' does not combine, are
\* stored by Append as the sequence of the two.
C14_MergeNeverRaises ==
    \A key \in MergeKeys, v \in MergeVals :
        /\ \A S \in {Base_Append(Cur, "E", <<<<key, v>>>>),
                     Base_Prepend(Cur, "E", <<<<key, v>>>>)}
                    \cup {Base_AppendUnique(Cur, "E", d, <<<<key, v>>>>) : d \in BOOLEAN}
                    \cup {Base_PrependUnique(Cur, "E", d, <<<<key, v>>>>) : d \in BOOLEAN} :
                S.exc = "none" /\ key \in DOMAIN S.dict["E"]
        /\ (/\ key = "X" /\ key \in DOMAIN dict["E"]
            /\ {dict["E"][key].t, v.t} = {"str", "int"}
            /\ Truthy(dict["E"][key]) /\ Truthy(v))
           => LET S == Base_Append(Cur, "E", <<<<key, v>>>>)
              IN  /\ is_List(S.dict["E"][key])
                  /\ S.dict["E"][key].l = <<ItemOf(dict["E"][key]), ItemOf(v)>>

\* ------------------------------------------------------ merging flags

\* CPPPATH is a variable whose name ends in PATH, LIBS one whose name does
\* not.
FlagKeys == {"CPPPATH", "LIBS"}
FlagVals == {ListV(<<At("a")>>), ListV(<<At("b")>>), StrV("b")}
FlagKws == {<<<<k, v>>>> : k \in FlagKeys, v \in {ListV(<<At("a")>>), ListV(<<At("b")>>)}}

InitFlags == InitWith({<<>>})

NextFlags ==
    \/ Call___setitem__({"E"}, FlagKeys, FlagVals)
    \/ Call_Append({"E"}, FlagKws)
    \/ Call_MergeFlags({"E"}, FlagKws)

SpecFlags == InitFlags /\ [][NextFlags]_vars

\* The incoming values of a merge: a word, and lists with and without
\* repeated elements.
FlagsIncoming ==
    {StrV("a"), ListV(<<At("a")>>), ListV(<<At("b"), At("a")>>),
     ListV(<<At("a"), At("b"), At("a")>>), ListV(<<At("c"), At("b")>>)}

\* What a variable holds, as a list: nothing when it is not set or empty,
\* the value alone when it is not a list.
Existing(key) ==
    IF key \notin DOMAIN dict["E"] \/ ~Truthy(dict["E"][key]) THEN <<>>
    ELSE IF is_List(dict["E"][key]) THEN dict["E"][key].l
    ELSE <<ItemOf(dict["E"][key])>>

\* C16: MergeFlags with unique=True stores, for a key and a non-empty
\* incoming value, the existing value followed by the incoming one with
\* the repeated elements removed: CPPPATH keeps the left-most occurrence of
\* each element, LIBS the right-most, the kept ones in their order.
C16_MergeFlagsUnique ==
    \A key \in FlagKeys, v \in FlagsIncoming :
        LET S == MergeFlags(Cur, "E", <<<<key, v>>>>, TRUE)
            all == Existing(key) \o (IF is_List(v) THEN v.l ELSE <<ItemOf(v)>>)
        IN  /\ S.exc = "none"
            /\ is_List(S.dict["E"][key])
            /\ S.dict["E"][key].l
                 = AtIndices(all, IF key = "CPPPATH" THEN FirstOccurrences(all)
                                  ELSE LastOccurrences(all), 1)

\* Parsed mappings of one and of two variables, the values a word or a
\* list, with and without repeated elements.
IdemIncoming ==
    {StrV("a"), ListV(<<At("c")>>), ListV(<<At("b"), At("a")>>),
     ListV(<<At("a"), At("b"), At("a")>>)}
IdemMappings ==
    {<<<<key, v>>>> : key \in FlagKeys, v \in IdemIncoming}
    \cup {<<<<"CPPPATH", v>>, <<"LIBS", w>>>> : v, w \in IdemIncoming}

\* The same variables, each with an equal value (a merge stores a new
\* list each time).
SameVariables(d1, d2) ==
    /\ DOMAIN d1 = DOMAIN d2
    /\ \A k \in DOMAIN d1 : PyEq(d1[k], d2[k])

NoRepeats(l) == \A i, j \in 1..Len(l) : l[i] = l[j] => i = j

\* C37: MergeFlags with unique=True applied twice in a row with the same
\* parsed mapping leaves every variable as one application leaves it, and
\* after one application no variable of the mapping holds an element
\* twice, whatever repeated elements it held before.
C37_MergeFlagsIdempotent ==
    \A m \in IdemMappings :
        LET S1 == MergeFlags(Cur, "E", m, TRUE)
            S2 == MergeFlags(S1, "E", m, TRUE)
        IN  /\ S1.exc = "none" /\ S2.exc = "none"
            /\ SameVariables(S2.dict["E"], S1.dict["E"])
            /\ \A i \in 1..Len(m) :
                    /\ is_List(S1.dict["E"][m[i][1]])
                    /\ NoRepeats(S1.dict["E"][m[i][1]].l)

\* LIBS holds [a, b, a] and CPPPATH [b, b]: merging [c] into LIBS gives
\* [b, a, c], merging [a] into CPPPATH gives [b, a], and a second merge of
\* the same changes neither.
C37_Witness ==
    /\ "CPPPATH" \in DOMAIN dict["E"] /\ "LIBS" \in DOMAIN dict["E"]
    /\ dict["E"]["LIBS"].l = <<At("a"), At("b"), At("a")>>
    /\ dict["E"]["CPPPATH"].l = <<At("b"), At("b")>>
    /\ LET m == <<<<"CPPPATH", StrV("a")>>, <<"LIBS", ListV(<<At("c")>>)>>>>
           S1 == MergeFlags(Cur, "E", m, TRUE)
       IN  /\ S1.dict["E"]["LIBS"].l = <<At("b"), At("a"), At("c")>>
           /\ S1.dict["E"]["CPPPATH"].l = <<At("b"), At("a")>>
           /\ SameVariables(MergeFlags(S1, "E", m, TRUE).dict["E"], S1.dict["E"])

\* CPPPATH and LIBS both hold [a, b]: merging [b, a] into CPPPATH leaves
\* [a, b], merging [a] into LIBS gives [b, a].
C16_Witness ==
    /\ "CPPPATH" \in DOMAIN dict["E"] /\ "LIBS" \in DOMAIN dict["E"]
    /\ dict["E"]["CPPPATH"].l = <<At("a"), At("b")>>
    /\ dict["E"]["LIBS"].l = <<At("a"), At("b")>>
    /\ MergeFlags(Cur, "E", <<<<"CPPPATH", ListV(<<At("b"), At("a")>>)>>>>,
                  TRUE).dict["E"]["CPPPATH"].l = <<At("a"), At("b")>>
    /\ MergeFlags(Cur, "E", <<<<"LIBS", ListV(<<At("a")>>)>>>>,
                  TRUE).dict["E"]["LIBS"].l = <<At("b"), At("a")>>

\* ------------------------------------------------------- the decider

\* The selectors by name, a callable, and a value that is neither.
Selectors ==
    {"MD5", "content", "MD5-timestamp", "content-timestamp",
     "timestamp-newer", "make", "timestamp-match", "f", "bogus"}

InitDecider == InitWith({<<>>})

NextDecider ==
    \/ Call_Decider(AllEnvs, Selectors)
    \/ Call_Clone({<<>>})
    \/ Call_Override({<<<<"X", ListV(<<At("a")>>)>>>>})

SpecDecider == InitDecider /\ [][NextDecider]_vars

\* The method a selector stands for.
Selected(function) ==
    CASE function \in {"MD5", "content"} -> "_changed_content"
      [] function \in {"MD5-timestamp", "content-timestamp"} ->
            "_changed_timestamp_then_content"
      [] function \in {"timestamp-newer", "make"} -> "_changed_timestamp_newer"
      [] function = "timestamp-match" -> "_changed_timestamp_match"
      [] OTHER -> function

\* C17: whatever was selected before, a Decider call that returns leaves
\* the cache-timestamp-preference flag true exactly when it selected 'make'
\* or 'timestamp-newer', and decide_source and decide_target both hold the
\* function of that call.
C17_DeciderFlag ==
    \A self \in live, function \in Selectors :
        LET S == Decider(Cur, self, function)
            d == S.decider[Subject(self)]
        IN  S.exc = "none" =>
                /\ d.cache_timestamp_newer = (function \in {"make", "timestamp-newer"})
                /\ d.decide_source = d.decide_target
                /\ d.decide_source.method = Selected(function)

\* 'make' was selected on E, so that the flag is set, and a call that
\* selects 'content' now clears it.
C17_Witness ==
    /\ decider["E"].cache_timestamp_newer
    /\ decider["E"].decide_source.method = "_changed_timestamp_newer"
    /\ ~Decider(Cur, "E", "content").decider["E"].cache_timestamp_newer

\* C35: in every state reached by Decider calls, failed calls included, the
\* cache-timestamp-preference flag of an environment is true exactly when
\* its decide_source and decide_target are the timestamp-newer decider, and
\* a Decider call that fails leaves the flag and both functions as they
\* were.
C35_FlagTracksDecider ==
    /\ \A e \in live \cap BaseEnvs :
            decider[e].cache_timestamp_newer
                = (/\ decider[e].decide_source.method = "_changed_timestamp_newer"
                   /\ decider[e].decide_target.method = "_changed_timestamp_newer")
    /\ \A self \in live, function \in Selectors :
            LET S == Decider(Cur, self, function)
            IN  S.exc # "none" => S.decider = decider

\* ---------------------------------------------------- the scanner map

\* SCANNERS is a list of scanners or one scanner.
ScannerVals == {ListV(<<At("s1")>>), ListV(<<At("s2")>>), ObjV("s1")}
ScannersKws == {<<<<"SCANNERS", v>>>> : v \in ScannerVals}
Skeys == {".c", ".H"}

InitScanners ==
    InitWith({<<>>, <<<<"PLATFORM", StrV("win32")>>>>, <<<<"PLATFORM", StrV("darwin")>>>>})

NextScanners ==
    \/ Call___setitem__({"E"}, {"SCANNERS"}, ScannerVals)
    \/ Call___delitem__({"E"}, {"SCANNERS"})
    \/ Call_setdefault({"E"}, {"SCANNERS"}, ScannerVals)
    \/ Call_Replace({"E"}, ScannersKws)
    \/ Call_Append({"E"}, ScannersKws)
    \/ Call_Prepend({"E"}, ScannersKws)
    \/ Call_AppendUnique({"E"}, ScannersKws)
    \/ Call_PrependUnique({"E"}, ScannersKws)
    \/ Call_get_scanner({"E"}, Skeys)

SpecScanners == InitScanners /\ [][NextScanners]_vars

\* C8: every get_scanner(key) returns what a computation of the scanner
\* map from the current SCANNERS would return: the memoized map is never
\* stale.
C8_ScannerMapNeverStale ==
    \A skey \in Skeys :
        get_scanner(Cur, "E", skey).ret
            = get_scanner(scanner_map_delete(Cur, "E"), "E", skey).ret

\* ------------------------------------------- item assignment, then read

\* C18: for a valid name that is not reserved, BUILDERS and SCANNERS
\* included, env[k] = v returns and a read of k then returns v: for
\* BUILDERS a mapping with the pairs of v, for SCANNERS and an ordinary
\* variable a value equal to v.
C18_SetThenGet ==
    \A e \in live \cap BaseEnvs :
        /\ LET v == DictV(<<<<"B1", "b2">>>>)
               S == SetItem(Cur, e, "BUILDERS", v)
           IN  /\ S.exc = "none"
               /\ GetItem(S, e, "BUILDERS").exc = "none"
               /\ is_Dict(GetItem(S, e, "BUILDERS").val)
               /\ GetItem(S, e, "BUILDERS").val.m = v.m
        /\ \A k \in {"SCANNERS", "X"}, v \in ScannerVals :
            LET S == SetItem(Cur, e, k, v)
            IN  /\ S.exc = "none"
                /\ GetItem(S, e, k).exc = "none"
                /\ PyEq(GetItem(S, e, k).val, v)

\* ------------------------------- one writer and readers of the scanner map

\* Two threads call get_scanner on E while a third assigns SCANNERS.
Readers == {"r1", "r2"}
RaceVals ==
    {ListV(<<At("s1")>>), ListV(<<At("s2")>>), ListV(<<At("s1"), At("s2")>>), ObjV("s1")}
RaceKws ==
    {<<<<"SCANNERS", v>>>> : v \in RaceVals}
    \cup {<<<<"PLATFORM", StrV("win32")>>, <<"SCANNERS", v>>>> : v \in RaceVals}

SeededScanners(kw) == kw[Len(kw)][2]

InitRace ==
    \E kw \in RaceKws :
        /\ Constructed(Base___init__(kw))
        /\ threads = [t \in Readers \cup {"w"} |->
                        IF t = "w" THEN [pc |-> "idle", writes |-> 0] ELSE IdleThread]
        /\ held = {SeededScanners(kw)}

SharedUnchanged == UNCHANGED <<live, dict, overrides, attrs, memo, added_methods, decider, held>>

Step_get_scanner ==
    \E t \in Readers, skey \in Skeys :
        /\ threads[t].pc \in {"idle", "done"}
        /\ threads' = [threads EXCEPT ![t] = Thread_get_scanner(Cur, "E", skey)]
        /\ SharedUnchanged

Step_memo ==
    \E t \in Readers :
        /\ threads[t].pc = "memo"
        /\ threads' = [threads EXCEPT ![t] = Thread_memo(Cur, "E", @)]
        /\ SharedUnchanged

Step_scanners ==
    \E t \in Readers :
        /\ threads[t].pc = "scanners"
        /\ threads' = [threads EXCEPT ![t] = Thread_scanners(Cur, "E", @)]
        /\ SharedUnchanged

Step_loop ==
    \E t \in Readers :
        /\ threads[t].pc = "loop"
        /\ threads' = [threads EXCEPT ![t] = Thread_loop(Cur, "E", @)]
        /\ memo' = [memo EXCEPT !["E"] =
                        MemoWhileBuilding(@, Thread_loop(Cur, "E", threads[t]).result)]
        /\ UNCHANGED <<live, dict, overrides, attrs, added_methods, decider, held>>

Step_store ==
    \E t \in Readers :
        /\ threads[t].pc = "store"
        /\ threads' = [threads EXCEPT ![t] = Thread_store(Cur, "E", @).th]
        /\ memo' = Thread_store(Cur, "E", threads[t]).S.memo
        /\ UNCHANGED <<live, dict, overrides, attrs, added_methods, decider, held>>

Step_return ==
    \E t \in Readers :
        /\ threads[t].pc = "return"
        /\ threads' = [threads EXCEPT ![t] = Thread_return(@)]
        /\ SharedUnchanged

Step_writer_store ==
    \E value \in RaceVals :
        /\ threads["w"].pc = "idle"
        /\ threads["w"].writes < MaxWrites
        /\ CommitShared(Writer_store(Cur, "E", "SCANNERS", value))
        /\ threads' = [threads EXCEPT !["w"].pc = "delete"]
        /\ held' = held \cup {value}
        /\ UNCHANGED live

Step_writer_delete ==
    /\ threads["w"].pc = "delete"
    /\ CommitShared(Writer_delete(Cur, "E"))
    /\ threads' = [threads EXCEPT !["w"].pc = "idle", !["w"].writes = @ + 1]
    /\ UNCHANGED <<live, held>>

NextRace ==
    \/ Step_get_scanner
    \/ Step_memo
    \/ Step_scanners
    \/ Step_loop
    \/ Step_store
    \/ Step_return
    \/ Step_writer_store
    \/ Step_writer_delete

SpecRace == InitRace /\ [][NextRace]_vars

\* The scanner map computed entirely from one value of SCANNERS.
WholeMap(value) == ScannerMap(ScannersList(value), Win32(Cur, "E"))

\* C24: with one writer assigning SCANNERS on E while other threads call
\* get_scanner on it, every finished get_scanner call has looked its key
\* up in a scanner map computed entirely from one value SCANNERS has held
\* (the value before a write or the value after it), never in a partly
\* built or mixed map.
C24_ReadersSeeWholeMaps ==
    \A t \in Readers :
        threads[t].pc = "done" =>
            \E value \in held :
                /\ threads[t].from = WholeMap(value)
                /\ threads[t].ret = Lookup(WholeMap(value), threads[t].skey)

\* A reader has returned from the map of the value before the write, after
\* the write ended, and the other reader from the map of the value after
\* it.
C24_Witness ==
    /\ threads["w"].writes = 1 /\ threads["w"].pc = "idle"
    /\ threads["r1"].pc = "done" /\ threads["r2"].pc = "done"
    /\ threads["r1"].from # threads["r2"].from
    /\ threads["r1"].ret # threads["r2"].ret
    /\ threads["r1"].skey = threads["r2"].skey
    /\ threads["r2"].from = WholeMap(dict["E"]["SCANNERS"])

\* No call of a thread is under way.
AllReturned ==
    /\ threads["w"].pc = "idle"
    /\ \A t \in Readers : threads[t].pc \in {"idle", "done"}

\* A get_scanner call made now, with the key looked up in the map of the
\* value SCANNERS holds now.
ReflectsScanners(skey) ==
    LET k == IF skey # "" /\ Win32(Cur, "E") THEN Lower(skey) ELSE skey
    IN  get_scanner(Cur, "E", skey).ret
            = Lookup(WholeMap(dict["E"]["SCANNERS"]), k)

\* C36: when get_scanner calls on E have overlapped an assignment to
\* SCANNERS on E and all of them have returned, every later get_scanner
\* call answers from the value SCANNERS holds now: no lookup that read the
\* value before the write has left its map in the memo after the write's
\* invalidation.
C36_LaterLookupsFresh ==
    (AllReturned /\ threads["w"].writes > 0) =>
        \A skey \in Skeys : ReflectsScanners(skey)

====
